---- MODULE Spec2Model ----
(***************************************************************************)
(* ModelRouter: the Router's candidate loop (api/router.py) over the       *)
(* shared state kept in Redis (api/infra/redis_client.py).                 *)
(*                                                                         *)
(* One step of the model is one stretch of code between two suspension     *)
(* points (await / yield) of the coroutine that serves a request.          *)
(***************************************************************************)
EXTENDS Integers, Sequences, FiniteSets, TLC

VARIABLES
    providers,   \* Router.providers: the ordered list of adapter names
    blacklist,   \* blacklist:{provider}  -> TTL of the key, 0 = key absent
    failures,    \* failures:{provider}   -> [n, ttl], n = 0 = key absent
    ratelimit,   \* ratelimit:{provider}  -> [n, ttl], n = 0 = key absent
    req,         \* per request: the coroutine's position, locals and output
    streak,      \* history: failures of a provider recorded since its last
                 \* success (since), and since its counter was last absent (run)
    orch,        \* the Orchestrator's call in flight: its position, the loop's
                 \* clock, what the router handed it and what it handed on
    limiter,     \* ratelimit:{identifier} and the check_rate_limit calls in 
                 \* flight on it
    slots,       \* concurrency:{resource} and the requests acquiring and
                 \* releasing slots on it
    adapter,     \* one adapter stream: the transport chunks still to come,
                 \* the parser's position and what it has yielded
    applied      \* one application of a function of the code: its arguments
                 \* and its result

vars == <<providers, blacklist, failures, ratelimit, req, streak, orch,
          limiter, slots, adapter, applied>>
router == <<providers, blacklist, failures, ratelimit, req, streak>>
store == <<blacklist, failures, ratelimit>>
\* the parts of the program outside the Router and the Orchestrator
apart == <<limiter, slots, adapter, applied>>
\* a part of the program that is not running in a specification
Off == [pc |-> "off"]
ApartOff == limiter = Off /\ slots = Off /\ adapter = Off /\ applied = Off

-----------------------------------------------------------------------------
(* Bounds of the model *)

\* chunks one adapter stream emits at most
MaxChunks == 2
\* failures:{p} values the store may hold when the request arrives
MaxInitFailures == 1
\* consecutive failures followed in the repeated-request specification
MaxFailures == 8
\* the configured per-provider limit (Settings.<name>_rate_limit)
ProviderRateLimit == 2
\* Orchestrator.max_operation_timeout, in ticks of the loop's clock
max_operation_timeout == 2
\* ticks of the loop's clock followed
MaxTime == 4

(* Program constants *)
backoff_base == 5
backoff_max == 300
failure_ttl == 300
window_seconds == 60

Requests == {"r1"}
Names == {"groq", "openrouter"}
Ghost == "ghost"
NoTtl == 0
Absent == [n |-> 0, ttl |-> NoTtl]

-----------------------------------------------------------------------------
(* Domain model *)

ProviderError(provider, code, message, retriable) ==
    [provider |-> provider, code |-> code, message |-> message,
     retriable |-> retriable]

None == ProviderError("", "", <<>>, FALSE)

\* ProviderErrors an adapter may raise: one retriable, one not
AdapterErrors(p) ==
    { ProviderError(p, "TIMEOUT", <<"Timeout al conectar con ", p>>, TRUE),
      ProviderError(p, "UNAUTHORIZED", <<"HTTP 401 de ", p>>, FALSE) }

\* str(e) of a fault that is not a ProviderError
Faults(p) == { <<"fallo inesperado en ", p>> }

Chunk(p, k) == <<p, k>>

\* one entry of a request's log: an adapter call, a store command, a chunk
\* yielded to the caller or a fault caught by the loop
Call(op, p, msg, val) == [op |-> op, provider |-> p, msg |-> msg, val |-> val]

-----------------------------------------------------------------------------
(* Router helpers *)

RECURSIVE Pow2(_)
Pow2(n) == IF n <= 0 THEN 1 ELSE 2 * Pow2(n - 1)

Min(a, b) == IF a <= b THEN a ELSE b

\* variant: past its cap the exponential starts over
Backoff_Wraps(failure_count) ==
    IF backoff_base * Pow2(failure_count - 1) > backoff_max THEN backoff_base
    ELSE backoff_base * Pow2(failure_count - 1)

\* variant: the exponential without its cap
Backoff_Uncapped(failure_count) == backoff_base * Pow2(failure_count - 1)

\* router.py 102-104
Backoff(failure_count) ==
    Min(backoff_base * Pow2(failure_count - 1), backoff_max)

\* router.py 223-233 / 302-312
AllProvidersFailed(last_error) ==
    ProviderError("router", "ALL_PROVIDERS_FAILED",
                  IF last_error # None
                  THEN <<"Todos los proveedores fallaron">>
                       \o <<". Ultimo error: ">> \o last_error.message
                  ELSE <<"Todos los proveedores fallaron">>,
                  FALSE)

\* variant: a candidate that was tried once is tried again
Continue_Retries(q) ==
    IF Cardinality({j \in 1..Len(q.calls) :
                       /\ q.calls[j].op = "GET blacklist"
                       /\ q.calls[j].provider = providers[q.i]}) < 2
    THEN [q EXCEPT !.pc = "gate"]
    ELSE IF q.i < Len(providers)
    THEN [q EXCEPT !.i = q.i + 1, !.pc = "gate"]
    ELSE [q EXCEPT !.i = q.i + 1, !.pc = "raised",
                   !.error = AllProvidersFailed(q.last_error)]

\* `continue` of the candidate loop; the loop's end raises
Continue(q) ==
    IF q.i < Len(providers)
    THEN [q EXCEPT !.i = q.i + 1, !.pc = "gate"]
    ELSE [q EXCEPT !.i = q.i + 1, !.pc = "raised",
                   !.error = AllProvidersFailed(q.last_error)]

\* variant: a failure after commit is not recorded
HandleProviderError_PreCommitOnly(q, e) ==
    IF e.retriable /\ q.out = <<>>
    THEN [q EXCEPT !.last_error = e, !.pc = "mark_incr"]
    ELSE Continue([q EXCEPT !.last_error = e])

\* variant: every ProviderError is recorded as a failure
HandleProviderError_AlwaysMarks(q, e) ==
    [q EXCEPT !.last_error = e, !.pc = "mark_incr"]

\* except ProviderError as e
HandleProviderError(q, e) ==
    IF e.retriable
    THEN [q EXCEPT !.last_error = e, !.pc = "mark_incr"]
    ELSE Continue([q EXCEPT !.last_error = e])

\* variant: an unknown fault is recorded as a failure
HandleException_Marks(q, p, text) ==
    [q EXCEPT !.last_error = ProviderError(p, "UNKNOWN_ERROR", text, FALSE),
              !.pc = "mark_incr"]

\* except Exception as e
HandleException(q, p, text) ==
    Continue([q EXCEPT !.last_error =
                  ProviderError(p, "UNKNOWN_ERROR", text, FALSE)])

\* _check_provider_rate_limit: the error of a rejected candidate
RateLimitError(p) ==
    ProviderError(p, "RATE_LIMIT",
                  <<"Rate limit de ", "provider_rate_limit",
                    " req/min excedido">>, TRUE)

\* variant: after the deadline the router goes on reading the same stream
HandleNoFirstChunk_KeepsStream(q) == [q EXCEPT !.pc = "streaming"]

\* variant: a stream without a first chunk counts as a finished stream
HandleNoFirstChunk_AsEnd(q) == [q EXCEPT !.pc = "reset"]

\* first_chunk is None: no first chunk in time, or an empty stream
HandleNoFirstChunk(q) == [q EXCEPT !.pc = "mark_incr"]

Logged(q, op, p, val) == [q EXCEPT !.calls = Append(@, Call(op, p, <<>>, val))]
Caught(q, kind, e) ==
    [q EXCEPT !.calls = Append(@, Call(kind, e.provider, e.message,
                                       IF e.retriable THEN 1 ELSE 0))]

Candidate(r) == providers[req[r].i]

Idle ==
    [pc |-> "idle", mode |-> "", pin |-> "", i |-> 0, last_error |-> None,
     failure_count |-> 0, upstream |-> <<>>, out |-> <<>>, response |-> "",
     error |-> None, calls |-> <<>>]

-----------------------------------------------------------------------------
(* Actions *)

\* A request enters choose_and_stream or choose_and_generate
Begin(q, mode, pin) ==
    IF Len(providers) = 0
    THEN [q EXCEPT !.mode = mode, !.pin = pin, !.i = 1, !.pc = "raised",
                   !.error = AllProvidersFailed(None)]
    ELSE [q EXCEPT !.mode = mode, !.pin = pin, !.i = 1, !.pc = "gate"]

Start(r) ==
    /\ req[r].pc = "idle"
    /\ \E mode \in {"stream", "generate"}, pin \in {""} \cup Names \cup {Ghost} :
          req' = [req EXCEPT ![r] = Begin(Idle, mode, pin)]
    /\ UNCHANGED <<orch, apart, providers, blacklist, failures, ratelimit, streak>>

\* A key with a TTL may have run out by the time a command reaches it:
\* Redis drops it on access
MayBeGone(k) == IF k.n # 0 /\ k.ttl # NoTtl THEN BOOLEAN ELSE {FALSE}
Live(k, gone) == IF gone THEN Absent ELSE k

\* variant: the gate lets blacklisted candidates through
GateBlacklist_NeverSkips(q, p, blacklisted) == [q EXCEPT !.pc = "rl_get"]

\* the blacklist gate: blacklisted candidates are skipped
GateBlacklist(q, p, blacklisted) ==
    IF blacklisted THEN Continue(q) ELSE [q EXCEPT !.pc = "rl_get"]

\* is_provider_blacklisted: GET blacklist:{p}
CheckBlacklist(r) ==
    /\ req[r].pc = "gate"
    /\ LET p == Candidate(r)
       IN \E gone \in (IF blacklist[p] # 0 THEN BOOLEAN ELSE {FALSE}) :
             /\ blacklist' = [blacklist EXCEPT ![p] = IF gone THEN 0 ELSE @]
             /\ req' = [req EXCEPT ![r] =
                           GateBlacklist(
                               Logged(@, "GET blacklist", p,
                                      IF blacklist'[p] # 0 THEN 1 ELSE 0),
                               p, blacklist'[p] # 0)]
    /\ UNCHANGED <<orch, apart, providers, failures, ratelimit, streak>>

\* check_provider_rate_limit, after GET ratelimit:{p}: what it does next
FixedWindow(current, max_requests) ==
    IF current = 0 THEN "rl_setex"
    ELSE IF current >= max_requests THEN "rejected" ELSE "rl_incr"

\* variant: a rejected candidate is skipped but not remembered
GateRateLimit_Forgets(q, p, verdict) ==
    IF verdict = "rejected"
    THEN Continue(Caught(q, "rate_limited", RateLimitError(p)))
    ELSE [q EXCEPT !.pc = verdict]

\* variant: a rejected candidate is recorded as a failure
GateRateLimit_Marks(q, p, verdict) ==
    IF verdict = "rejected"
    THEN [Caught(q, "rate_limited", RateLimitError(p))
             EXCEPT !.last_error = RateLimitError(p), !.pc = "mark_incr"]
    ELSE [q EXCEPT !.pc = verdict]

\* the rate-limit gate: a rejected candidate is remembered and skipped
GateRateLimit(q, p, verdict) ==
    IF verdict = "rejected"
    THEN Continue([Caught(q, "rate_limited", RateLimitError(p))
                      EXCEPT !.last_error = RateLimitError(p)])
    ELSE [q EXCEPT !.pc = verdict]

RateLimitGet(r) ==
    /\ req[r].pc = "rl_get"
    /\ LET p == Candidate(r)
       IN \E gone \in MayBeGone(ratelimit[p]) :
             /\ ratelimit' = [ratelimit EXCEPT ![p] = Live(@, gone)]
             /\ req' = [req EXCEPT ![r] =
                           GateRateLimit(
                               Logged(@, "GET ratelimit", p, ratelimit'[p].n), p,
                               FixedWindow(ratelimit'[p].n, ProviderRateLimit))]
    /\ UNCHANGED <<orch, apart, providers, blacklist, failures, streak>>

\* first request of the window: SETEX ratelimit:{p} window 1
RateLimitSetex(r) ==
    /\ req[r].pc = "rl_setex"
    /\ LET p == Candidate(r)
       IN /\ ratelimit' = [ratelimit EXCEPT ![p] = [n |-> 1, ttl |-> window_seconds]]
          /\ req' = [req EXCEPT ![r] =
                        [Logged(@, "SETEX ratelimit", p, 1) EXCEPT !.pc = "call"]]
    /\ UNCHANGED <<orch, apart, providers, blacklist, failures, streak>>

\* INCR ratelimit:{p} (INCR creates an absent key, without a TTL)
Incr(k) == IF k.n = 0 THEN [n |-> 1, ttl |-> NoTtl] ELSE [k EXCEPT !.n = @ + 1]

RateLimitIncr(r) ==
    /\ req[r].pc = "rl_incr"
    /\ LET p == Candidate(r)
       IN \E gone \in MayBeGone(ratelimit[p]) :
             /\ ratelimit' = [ratelimit EXCEPT ![p] = Incr(Live(@, gone))]
             /\ req' = [req EXCEPT ![r] =
                           [Logged(@, "INCR ratelimit", p, ratelimit'[p].n) EXCEPT !.pc = "call"]]
    /\ UNCHANGED <<orch, apart, providers, blacklist, failures, streak>>

\* choose_and_generate: await provider.generate(request)
GenerateReturned(q, p) == [q EXCEPT !.response = p, !.pc = "reset"]

Generate(r) ==
    /\ req[r].pc = "call"
    /\ req[r].mode = "generate"
    /\ LET p == Candidate(r)
           q == Logged(req[r], "generate", p, 0)
       IN \/ req' = [req EXCEPT ![r] = GenerateReturned(q, p)]
          \/ \E e \in AdapterErrors(p) :
                req' = [req EXCEPT ![r] = HandleProviderError(Caught(q, "ProviderError", e), e)]
          \/ \E x \in Faults(p) :
                req' = [req EXCEPT ![r] =
                           HandleException(
                               Caught(q, "Exception", ProviderError(p, "UNKNOWN_ERROR", x, FALSE)),
                               p, x)]
    /\ UNCHANGED <<orch, apart, providers, blacklist, failures, ratelimit, streak>>

\* a chunk of the committed stream is yielded to the caller
Yield(q, chunk) ==
    [Logged(q, "yield", chunk[1], chunk[2])
        EXCEPT !.out = Append(@, chunk), !.pc = "streaming"]

\* provider.stream(request): a fresh adapter stream that produced nothing yet
OpenStream(q) == [q EXCEPT !.upstream = <<>>]

\* stream.__anext__(): the adapter stream produces its next chunk
Anext(q, p) == [q EXCEPT !.upstream = Append(@, Chunk(p, Len(@) + 1))]

\* the n-th element of full_stream: first_chunk, then the rest of the stream
FullStream(q, n) == q.upstream[n]

\* choose_and_stream: provider.stream(request) and _wait_for_first_chunk
FirstChunk(r) ==
    /\ req[r].pc = "call"
    /\ req[r].mode = "stream"
    /\ LET p == Candidate(r)
           q == Logged(OpenStream(req[r]), "stream", p, 0)
       IN \/ req' = [req EXCEPT ![r] = Yield(Anext(q, p), FullStream(Anext(q, p), 1))]
          \/ \E why \in {"timeout", "empty"} :
                req' = [req EXCEPT ![r] = HandleNoFirstChunk(Logged(q, why, p, 0))]
          \/ \E e \in AdapterErrors(p) :
                req' = [req EXCEPT ![r] = HandleProviderError(Caught(q, "ProviderError", e), e)]
          \/ \E x \in Faults(p) :
                req' = [req EXCEPT ![r] =
                           HandleException(
                               Caught(q, "Exception", ProviderError(p, "UNKNOWN_ERROR", x, FALSE)),
                               p, x)]
    /\ UNCHANGED <<orch, apart, providers, blacklist, failures, ratelimit, streak>>

\* variant: the stream's normal end returns without the reset
StreamEnded_NoReset(q) == [q EXCEPT !.pc = "done"]

\* the stream ended normally: _mark_provider_success comes next
StreamEnded(q) == [q EXCEPT !.pc = "reset"]

\* choose_and_stream: async for chunk in full_stream, after the first chunk
StreamNext(r) ==
    /\ req[r].pc = "streaming"
    /\ LET p == Candidate(r)
           q == req[r]
       IN \/ /\ Len(q.upstream) < MaxChunks
             /\ req' = [req EXCEPT ![r] =
                           Yield(Anext(q, p),
                                 FullStream(Anext(q, p), Len(q.upstream) + 1))]
          \/ req' = [req EXCEPT ![r] = StreamEnded(q)]
          \/ \E e \in AdapterErrors(p) :
                req' = [req EXCEPT ![r] = HandleProviderError(Caught(q, "ProviderError", e), e)]
          \/ \E x \in Faults(p) :
                req' = [req EXCEPT ![r] =
                           HandleException(
                               Caught(q, "Exception", ProviderError(p, "UNKNOWN_ERROR", x, FALSE)),
                               p, x)]
    /\ UNCHANGED <<orch, apart, providers, blacklist, failures, ratelimit, streak>>

\* _mark_provider_success: DEL failures:{p}, then return
MarkSuccess(r) ==
    /\ req[r].pc = "reset"
    /\ LET p == Candidate(r)
       IN /\ failures' = [failures EXCEPT ![p] = Absent]
          /\ req' = [req EXCEPT ![r] =
                        [Logged(@, "DEL failures", p,
                                IF failures[p].n # 0 THEN 1 ELSE 0)
                            EXCEPT !.pc = "done"]]
          /\ streak' = [streak EXCEPT ![p] = [since |-> 0, run |-> 0]]
    /\ UNCHANGED <<orch, apart, providers, blacklist, ratelimit>>

\* increment_failure_count: count = INCR failures:{p}
IncrementFailure(r) ==
    /\ req[r].pc = "mark_incr"
    /\ LET p == Candidate(r)
       IN /\ failures[p].n < MaxFailures /\ streak[p].since < MaxFailures
          /\ \E gone \in MayBeGone(failures[p]) :
                /\ failures' = [failures EXCEPT ![p] = Incr(Live(@, gone))]
                /\ req' = [req EXCEPT ![r] =
                              [Logged(@, "INCR failures", p, failures'[p].n)
                                  EXCEPT !.failure_count = failures'[p].n,
                                         !.pc = "mark_expire"]]
                /\ streak' = [streak EXCEPT ![p] =
                                 [since |-> @.since + 1,
                                  run |-> IF gone THEN 1 ELSE @.run + 1]]
    /\ UNCHANGED <<orch, apart, providers, blacklist, ratelimit>>

\* increment_failure_count: EXPIRE failures:{p} 300
ExpireFailure(r) ==
    /\ req[r].pc = "mark_expire"
    /\ LET p == Candidate(r)
       IN \E gone \in MayBeGone(failures[p]) :
             /\ failures' = [failures EXCEPT ![p] =
                                IF Live(@, gone).n = 0 THEN Absent
                                ELSE [@ EXCEPT !.ttl = failure_ttl]]
             /\ req' = [req EXCEPT ![r] =
                           [Logged(@, "EXPIRE failures", p, 0)
                               EXCEPT !.pc = "mark_bl"]]
             /\ streak' = [streak EXCEPT ![p] =
                              IF gone THEN [@ EXCEPT !.run = 0] ELSE @]
    /\ UNCHANGED <<orch, apart, providers, blacklist, ratelimit>>

\* blacklist_provider: SETEX blacklist:{p} backoff 1, then `continue`
BlacklistProvider(r) ==
    /\ req[r].pc = "mark_bl"
    /\ LET p == Candidate(r)
       IN /\ blacklist' = [blacklist EXCEPT ![p] = Backoff(req[r].failure_count)]
          /\ req' = [req EXCEPT ![r] =
                        Continue(Logged(@, "SETEX blacklist", p, blacklist'[p]))]
    /\ UNCHANGED <<orch, apart, providers, failures, ratelimit, streak>>

-----------------------------------------------------------------------------
(* Orchestrator (api/orchestrator.py) *)

\* no call in flight
OrchIdle ==
    [pc |-> "idle", mode |-> "", start_time |-> 0, time |-> 0, inner |-> "none",
     received |-> <<>>, out |-> <<>>, response |-> "", error |-> None,
     ended_at |-> 0, caught |-> [kind |-> "none", e |-> None, text |-> <<>>]]

-----------------------------------------------------------------------------
(* Specification: one request against a store left by earlier requests *)

InitStore ==
    /\ failures \in [Names -> {Absent} \cup
                       {[n |-> k, ttl |-> failure_ttl] : k \in 1..MaxInitFailures}]
    /\ blacklist \in [Names -> {0} \cup {Backoff(k) : k \in 1..MaxInitFailures}]
    /\ \A p \in Names : blacklist[p] # 0 =>
          failures[p].n >= 1 /\ blacklist[p] = Backoff(failures[p].n)
    /\ ratelimit \in [Names -> {Absent} \cup
                       {[n |-> k, ttl |-> window_seconds] :
                            k \in {ProviderRateLimit - 1, ProviderRateLimit}}]

Init ==
    /\ providers = <<"groq", "openrouter">>
    /\ InitStore
    /\ req = [r \in Requests |-> Idle]
    /\ streak = [p \in Names |-> [since |-> failures[p].n, run |-> failures[p].n]]
    /\ orch = OrchIdle
    /\ ApartOff

Next ==
    \/ \E r \in Requests : Start(r)
    \/ \E r \in Requests : CheckBlacklist(r)
    \/ \E r \in Requests : RateLimitGet(r)
    \/ \E r \in Requests : RateLimitSetex(r)
    \/ \E r \in Requests : RateLimitIncr(r)
    \/ \E r \in Requests : Generate(r)
    \/ \E r \in Requests : FirstChunk(r)
    \/ \E r \in Requests : StreamNext(r)
    \/ \E r \in Requests : MarkSuccess(r)
    \/ \E r \in Requests : IncrementFailure(r)
    \/ \E r \in Requests : ExpireFailure(r)
    \/ \E r \in Requests : BlacklistProvider(r)

Spec == Init /\ [][Next]_vars

-----------------------------------------------------------------------------
(* Specification: a router with one provider serving request after request,
   from an empty store *)

\* the caller has its answer; the next request may arrive
Restart(r) ==
    /\ req[r].pc \in {"done", "raised"}
    /\ req' = [req EXCEPT ![r] = Idle]
    /\ UNCHANGED <<orch, apart, providers, blacklist, failures, ratelimit, streak>>

InitRepeat ==
    /\ providers = <<"groq">>
    /\ blacklist = [p \in Names |-> 0]
    /\ failures = [p \in Names |-> Absent]
    /\ ratelimit = [p \in Names |-> Absent]
    /\ req = [r \in Requests |-> Idle]
    /\ streak = [p \in Names |-> [since |-> 0, run |-> 0]]
    /\ orch = OrchIdle
    /\ ApartOff

NextRepeat ==
    \/ Next
    \/ \E r \in Requests : Restart(r)

SpecRepeat == InitRepeat /\ [][NextRepeat]_vars

-----------------------------------------------------------------------------
(* Specification: one request to a router with three providers, no provider
   blacklisted, no failure counted and every rate-limit window open when it
   arrives *)

Names3 == Names \cup {"ollama"}

Init3 ==
    /\ providers = <<"groq", "openrouter", "ollama">>
    /\ blacklist = [p \in Names3 |-> 0]
    /\ failures = [p \in Names3 |-> Absent]
    /\ ratelimit = [p \in Names3 |->
                       [n |-> ProviderRateLimit - 1, ttl |-> window_seconds]]
    /\ req = [r \in Requests |-> Idle]
    /\ streak = [p \in Names3 |-> [since |-> 0, run |-> 0]]
    /\ orch = OrchIdle
    /\ ApartOff

\* a request that names no provider enters the router
StartUnpinned(r) ==
    /\ req[r].pc = "idle"
    /\ \E mode \in {"stream", "generate"} :
          req' = [req EXCEPT ![r] = Begin(Idle, mode, "")]
    /\ UNCHANGED <<orch, apart, providers, blacklist, failures, ratelimit, streak>>

Next3 ==
    \/ \E r \in Requests : StartUnpinned(r)
    \/ \E r \in Requests : CheckBlacklist(r)
    \/ \E r \in Requests : RateLimitGet(r)
    \/ \E r \in Requests : RateLimitSetex(r)
    \/ \E r \in Requests : RateLimitIncr(r)
    \/ \E r \in Requests : Generate(r)
    \/ \E r \in Requests : FirstChunk(r)
    \/ \E r \in Requests : StreamNext(r)
    \/ \E r \in Requests : MarkSuccess(r)
    \/ \E r \in Requests : IncrementFailure(r)
    \/ \E r \in Requests : ExpireFailure(r)
    \/ \E r \in Requests : BlacklistProvider(r)

Spec3 == Init3 /\ [][Next3]_vars

-----------------------------------------------------------------------------
(* Specification: one call of the Orchestrator; the router it wraps is any
   router: it may hand over a chunk, end, return, raise or stay silent *)

\* orchestrator.py 76-81 / 95-100 / 167-172
GlobalTimeout ==
    ProviderError("orchestrator", "GLOBAL_TIMEOUT",
                  <<"Operacion excedio timeout global de ",
                    "max_operation_timeout", "s">>, FALSE)

\* elapsed = loop.time() - start_time
Elapsed(o) == o.time - o.start_time

Ended(o, pc, how) == [o EXCEPT !.pc = pc, !.inner = how, !.ended_at = o.time]

\* variant: the chunk is handed on before the clock is looked at
OnChunk_YieldsFirst(o, chunk) ==
    LET got == [o EXCEPT !.received =
                    Append(@, [chunk |-> chunk, elapsed |-> Elapsed(o)]),
                         !.out = Append(@, chunk)]
    IN IF Elapsed(o) > max_operation_timeout
       THEN [Ended(got, "raised", "dropped") EXCEPT !.error = GlobalTimeout]
       ELSE got

\* stream_response: the body of `async for chunk in choose_and_stream(...)`
OnChunk(o, chunk) ==
    LET got == [o EXCEPT !.received =
                    Append(@, [chunk |-> chunk, elapsed |-> Elapsed(o)])]
    IN IF Elapsed(o) > max_operation_timeout
       THEN [Ended(got, "raised", "dropped") EXCEPT !.error = GlobalTimeout]
       ELSE [got EXCEPT !.out = Append(@, chunk)]

\* stream_response or generate_response is entered
OrchStart ==
    /\ orch.pc = "idle"
    /\ \E mode \in {"stream", "generate"} :
          orch' = [orch EXCEPT !.pc = "running", !.mode = mode,
                               !.start_time = orch.time, !.inner = "running"]
    /\ UNCHANGED <<router, apart>>

\* the loop's clock advances; asyncio.wait_for's timer does not let a unary
\* call wait beyond max_operation_timeout
Tick ==
    /\ orch.time < MaxTime
    /\ \/ orch.pc = "idle" /\ orch.time + max_operation_timeout + 1 < MaxTime
       \/ /\ orch.pc = "running"
          /\ orch.mode = "generate" => Elapsed(orch) < max_operation_timeout
    /\ orch' = [orch EXCEPT !.time = @ + 1]
    /\ UNCHANGED <<router, apart>>

\* the router's stream hands over its next chunk
RouterYields ==
    /\ orch.pc = "running" /\ orch.mode = "stream"
    /\ Len(orch.received) < MaxChunks
    /\ orch' = OnChunk(orch, Len(orch.received) + 1)
    /\ UNCHANGED <<router, apart>>

\* the router's stream ends normally
RouterEnds ==
    /\ orch.pc = "running" /\ orch.mode = "stream"
    /\ orch' = Ended(orch, "done", "ended")
    /\ UNCHANGED <<router, apart>>

\* choose_and_generate returns before the timer fires
GenerateReturns ==
    /\ orch.pc = "running" /\ orch.mode = "generate"
    /\ orch' = [Ended(orch, "done", "ended") EXCEPT !.response = "response"]
    /\ UNCHANGED <<router, apart>>

\* asyncio.wait_for: the timer fires, the router call is cancelled
GenerateTimeout ==
    /\ orch.pc = "running" /\ orch.mode = "generate"
    /\ Elapsed(orch) >= max_operation_timeout
    /\ orch' = [Ended(orch, "raised", "cancelled") EXCEPT !.error = GlobalTimeout]
    /\ UNCHANGED <<router, apart>>

\* what the Orchestrator caught from the router call
Caught3(kind, e, text) == [kind |-> kind, e |-> e, text |-> text]

\* variant: a ProviderError of the router is wrapped like any other fault
OnProviderError_Wraps(e) ==
    ProviderError("orchestrator", "UNKNOWN_ERROR",
                  <<"Error inesperado: ">> \o e.message, FALSE)

\* except ProviderError: raise
OnProviderError(e) == e

\* except Exception as e: raise ProviderError(orchestrator, UNKNOWN_ERROR, ...)
OnException(text) ==
    ProviderError("orchestrator", "UNKNOWN_ERROR",
                  <<"Error inesperado: ">> \o text, FALSE)

\* except asyncio.TimeoutError: raise ProviderError(orchestrator, GLOBAL_TIMEOUT, ...)
OnTimeoutError == GlobalTimeout

\* the router call raises a ProviderError
RouterRaises ==
    /\ orch.pc = "running"
    /\ \E e \in {AllProvidersFailed(None)} \cup AdapterErrors("groq") :
          orch' = [Ended(orch, "raised", "raised")
                      EXCEPT !.error = OnProviderError(e),
                             !.caught = Caught3("ProviderError", e, e.message)]
    /\ UNCHANGED <<router, apart>>

\* the router call raises a fault that is neither a ProviderError nor an
\* asyncio.TimeoutError
RouterFaults ==
    /\ orch.pc = "running"
    /\ \E x \in Faults("router") :
          orch' = [Ended(orch, "raised", "raised")
                      EXCEPT !.error = OnException(x),
                             !.caught = Caught3("Exception", None, x)]
    /\ UNCHANGED <<router, apart>>

\* the router call itself raises asyncio.TimeoutError
RouterTimesOut ==
    /\ orch.pc = "running"
    /\ orch' = [Ended(orch, "raised", "raised")
                   EXCEPT !.error = OnTimeoutError,
                          !.caught = Caught3("TimeoutError", None, <<"timeout">>)]
    /\ UNCHANGED <<router, apart>>

InitOrch ==
    /\ providers = <<"groq", "openrouter">>
    /\ blacklist = [p \in Names |-> 0]
    /\ failures = [p \in Names |-> Absent]
    /\ ratelimit = [p \in Names |-> Absent]
    /\ req = [r \in Requests |-> Idle]
    /\ streak = [p \in Names |-> [since |-> 0, run |-> 0]]
    /\ orch = OrchIdle
    /\ ApartOff

\* the Router and the Orchestrator are not running
Rest ==
    /\ providers = <<"groq", "openrouter">>
    /\ blacklist = [p \in Names |-> 0]
    /\ failures = [p \in Names |-> Absent]
    /\ ratelimit = [p \in Names |-> Absent]
    /\ req = [r \in Requests |-> Idle]
    /\ streak = [p \in Names |-> [since |-> 0, run |-> 0]]
    /\ orch = OrchIdle

NextOrch ==
    \/ OrchStart
    \/ Tick
    \/ RouterYields
    \/ RouterEnds
    \/ GenerateReturns
    \/ GenerateTimeout
    \/ RouterRaises
    \/ RouterFaults
    \/ RouterTimesOut

SpecOrch == InitOrch /\ [][NextOrch]_vars

-----------------------------------------------------------------------------
(* Specification: check_rate_limit called on one identifier by the requests
   of Callers, sequentially or overlapping, from an absent key
   (api/infra/redis_client.py 127-160) *)

\* the largest max_requests followed
MaxRequests == 2
\* calls of check_rate_limit followed
MaxCalls == 4

Callers == {"a", "b"}

\* variant: the limit is reached only above max_requests
Exhausted_Strict(count, max_requests) == count > max_requests

\* if count >= max_requests
Exhausted(count, max_requests) == count >= max_requests

\* variant: the requests left are counted before this one
Remaining_BeforeThis(count, max_requests) == max_requests - count

\* return True, max_requests - count - 1
Remaining(count, max_requests) == max_requests - count - 1

\* what one call hands back, with the key as it read it and as it left it
Verdict(c, allowed, remaining, before, after) ==
    [caller |-> c, allowed |-> allowed, remaining |-> remaining,
     before |-> before, after |-> after]

LimiterCallIdle == [pc |-> "idle", current |-> Absent]

\* the call returns: its verdict is logged, an allowed request is admitted
LimiterReturn(l, c, allowed, remaining, key) ==
    [l EXCEPT !.key = key,
              !.call[c] = LimiterCallIdle,
              !.log = Append(@, Verdict(c, allowed, remaining,
                                        l.call[c].current, key)),
              !.admitted = IF allowed THEN @ + 1 ELSE @]

\* current = await client.get(key), and the branch taken on it
LimiterGet(c) ==
    /\ limiter.pc = "on"
    /\ limiter.call[c].pc = "idle"
    /\ limiter.calls < MaxCalls
    /\ LET l == [limiter EXCEPT
                    !.calls = @ + 1,
                    !.call[c].current = limiter.key,
                    !.overlapped = @ \/ \E d \in Callers \ {c} :
                                           limiter.call[d].pc # "idle"]
       IN  limiter' =
             IF limiter.key = Absent
             THEN [l EXCEPT !.call[c].pc = "setex"]
             ELSE IF Exhausted(limiter.key.n, limiter.max_requests)
             THEN LimiterReturn(l, c, FALSE, 0, limiter.key)
             ELSE [l EXCEPT !.call[c].pc = "incr"]
    /\ UNCHANGED <<router, orch, slots, adapter, applied>>

\* await client.setex(key, window_seconds, "1"); return True, max_requests - 1
LimiterSetex(c) ==
    /\ limiter.pc = "on"
    /\ limiter.call[c].pc = "setex"
    /\ limiter' = LimiterReturn(limiter, c, TRUE, limiter.max_requests - 1,
                                [n |-> 1, ttl |-> window_seconds])
    /\ UNCHANGED <<router, orch, slots, adapter, applied>>

\* await client.incr(key); return True, max_requests - count - 1
\* (INCR of a key that has expired meanwhile creates it at 1 with no TTL)
LimiterIncr(c) ==
    /\ limiter.pc = "on"
    /\ limiter.call[c].pc = "incr"
    /\ limiter' = LimiterReturn(limiter, c, TRUE,
                     Remaining(limiter.call[c].current.n, limiter.max_requests),
                     IF limiter.key = Absent
                     THEN [n |-> 1, ttl |-> NoTtl]
                     ELSE [limiter.key EXCEPT !.n = @ + 1])
    /\ UNCHANGED <<router, orch, slots, adapter, applied>>

\* the key's TTL runs out: the window ends
WindowEnds ==
    /\ limiter.pc = "on"
    /\ limiter.key # Absent
    /\ limiter.key.ttl # NoTtl
    /\ ~limiter.rolled
    /\ limiter' = [limiter EXCEPT !.key = Absent, !.rolled = TRUE]
    /\ UNCHANGED <<router, orch, slots, adapter, applied>>

InitLimiter ==
    /\ Rest
    /\ limiter \in {[pc |-> "on", max_requests |-> m, key |-> Absent,
                     call |-> [c \in Callers |-> LimiterCallIdle],
                     calls |-> 0, log |-> <<>>, admitted |-> 0,
                     overlapped |-> FALSE, rolled |-> FALSE] :
                        m \in 1..MaxRequests}
    /\ slots = Off /\ adapter = Off /\ applied = Off

NextLimiter ==
    \/ \E c \in Callers : LimiterGet(c)
    \/ \E c \in Callers : LimiterSetex(c)
    \/ \E c \in Callers : LimiterIncr(c)
    \/ WindowEnds

SpecLimiter == InitLimiter /\ [][NextLimiter]_vars

-----------------------------------------------------------------------------
(* Specification: the requests of Clients acquire and release slots of one
   resource, concurrently; a holder may crash; the key's TTL runs with the
   clock (api/infra/redis_client.py 164-201) *)

\* the largest max_slots followed
MaxSlots == 2
\* the ttl handed to acquire_slot, in ticks of the clock
SlotTtl == 2

Clients == {"a", "b"}

\* current_count = int(current) if current else 0
CurrentCount(key) == key.n

\* if current_count >= max_slots: return False
NoSlotLeft(key, max_slots) == CurrentCount(key) >= max_slots

\* if current and int(current) > 0
SlotHeld(key) == key # Absent /\ key.n > 0

\* client.get(key) of acquire_slot, and the branch taken on it
AcquireGet(c) ==
    /\ slots.pc = "on"
    /\ slots.client[c] = "idle"
    /\ slots' = IF NoSlotLeft(slots.key, slots.max_slots)
                THEN [slots EXCEPT !.refused = TRUE]
                ELSE [slots EXCEPT !.client[c] = "incr"]
    /\ UNCHANGED <<router, orch, limiter, adapter, applied>>

\* await client.incr(key): a key that is absent is created at 1 with no TTL
AcquireIncr(c) ==
    /\ slots.pc = "on"
    /\ slots.client[c] = "incr"
    /\ slots' = [slots EXCEPT !.key = [@ EXCEPT !.n = @ + 1],
                              !.client[c] = "expire"]
    /\ UNCHANGED <<router, orch, limiter, adapter, applied>>

\* await client.expire(key, ttl); return True
AcquireExpire(c) ==
    /\ slots.pc = "on"
    /\ slots.client[c] = "expire"
    /\ slots' = [slots EXCEPT !.key = [@ EXCEPT !.ttl = SlotTtl],
                              !.client[c] = "holding"]
    /\ UNCHANGED <<router, orch, limiter, adapter, applied>>

\* client.get(key) of release_slot, and the branch taken on it
ReleaseGet(c) ==
    /\ slots.pc = "on"
    /\ slots.client[c] = "holding"
    /\ slots' = IF SlotHeld(slots.key)
                THEN [slots EXCEPT !.client[c] = "decr"]
                ELSE [slots EXCEPT !.client[c] = "idle"]
    /\ UNCHANGED <<router, orch, limiter, adapter, applied>>

\* await client.decr(key): a key that is absent is created at -1 with no TTL
ReleaseDecr(c) ==
    /\ slots.pc = "on"
    /\ slots.client[c] = "decr"
    /\ slots' = [slots EXCEPT !.key = [@ EXCEPT !.n = @ - 1],
                              !.client[c] = "idle"]
    /\ UNCHANGED <<router, orch, limiter, adapter, applied>>

\* a request that holds a slot dies without calling release_slot
Crash(c) ==
    /\ slots.pc = "on"
    /\ slots.client[c] = "holding"
    /\ \A d \in Clients : slots.client[d] # "crashed"
    /\ slots' = [slots EXCEPT !.client[c] = "crashed",
                              !.leaked = TRUE,
                              !.crashed_at = slots.clock]
    /\ UNCHANGED <<router, orch, limiter, adapter, applied>>

\* a tick of the clock: a key with a TTL comes one tick closer to its expiry
\* and is deleted when it gets there, with every slot it counted
SlotsTick ==
    /\ slots.pc = "on"
    /\ slots.clock < MaxTime
    /\ slots' = [slots EXCEPT
                    !.clock = @ + 1,
                    !.key = IF @.ttl = NoTtl THEN @
                            ELSE IF @.ttl = 1 THEN Absent
                            ELSE [@ EXCEPT !.ttl = @ - 1],
                    !.leaked = @ /\ slots.key.ttl # 1]
    /\ UNCHANGED <<router, orch, limiter, adapter, applied>>

InitSlots ==
    /\ Rest
    /\ slots \in {[pc |-> "on", max_slots |-> m, key |-> Absent,
                   client |-> [c \in Clients |-> "idle"],
                   clock |-> 0, refused |-> FALSE,
                   leaked |-> FALSE, crashed_at |-> 0] : m \in 1..MaxSlots}
    /\ limiter = Off /\ adapter = Off /\ applied = Off

NextSlots ==
    \/ \E c \in Clients : AcquireGet(c)
    \/ \E c \in Clients : AcquireIncr(c)
    \/ \E c \in Clients : AcquireExpire(c)
    \/ \E c \in Clients : ReleaseGet(c)
    \/ \E c \in Clients : ReleaseDecr(c)
    \/ \E c \in Clients : Crash(c)
    \/ SlotsTick

SpecSlots == InitSlots /\ [][NextSlots]_vars

-----------------------------------------------------------------------------
(* Specification: one function of the code applied once to arguments drawn
   from small sets: the store operations performed once and twice in a row
   (api/infra/redis_client.py 49-160), ProviderAdapter._handle_http_error
   (api/providers/base.py 93-127) and the status mapping of /chat
   (api/controllers/chat.py 109-119) *)

\* the keys of one provider (and of the identifier of the same name)
Keys(bl, fl, rl) == [blacklist |-> bl, failures |-> fl, ratelimit |-> rl]

\* what an operation leaves and what it returns
Outcome(st, result) == [store |-> st, result |-> result]

\* value = await client.get(key); return value is not None
is_provider_blacklisted(st) == Outcome(st, st.blacklist # 0)

\* variant: the blacklist is extended by `seconds` instead of set to it
blacklist_provider_Extends(st, seconds) ==
    Outcome([st EXCEPT !.blacklist = @ + seconds], None)

\* await client.setex(key, seconds, "1")
blacklist_provider(st, seconds) ==
    Outcome([st EXCEPT !.blacklist = seconds], None)

\* count = await client.incr(key); await client.expire(key, 300); return count
increment_failure_count(st) ==
    LET k == [Incr(st.failures) EXCEPT !.ttl = failure_ttl]
    IN  Outcome([st EXCEPT !.failures = k], k.n)

\* await client.delete(key)
reset_failure_count(st) == Outcome([st EXCEPT !.failures = Absent], None)

\* check_rate_limit, its three commands run without interruption
check_rate_limit(st, max_requests) ==
    IF st.ratelimit = Absent
    THEN Outcome([st EXCEPT !.ratelimit = [n |-> 1, ttl |-> window_seconds]],
                 <<TRUE, max_requests - 1>>)
    ELSE IF Exhausted(st.ratelimit.n, max_requests)
    THEN Outcome(st, <<FALSE, 0>>)
    ELSE Outcome([st EXCEPT !.ratelimit = Incr(@)],
                 <<TRUE, Remaining(st.ratelimit.n, max_requests)>>)

StoreOps ==
    {"is_provider_blacklisted", "blacklist_provider", "increment_failure_count",
     "reset_failure_count", "check_rate_limit"}

\* the operation `fn` of RedisClient performed on the keys st
Perform(fn, st, arg) ==
    CASE fn = "is_provider_blacklisted" -> is_provider_blacklisted(st)
      [] fn = "blacklist_provider" -> blacklist_provider(st, arg)
      [] fn = "increment_failure_count" -> increment_failure_count(st)
      [] fn = "reset_failure_count" -> reset_failure_count(st)
      [] fn = "check_rate_limit" -> check_rate_limit(st, arg)

\* the arguments an operation takes besides the provider / identifier
Arguments(fn) ==
    CASE fn = "blacklist_provider" -> {Backoff(1), Backoff(2)}
      [] fn = "check_rate_limit" -> 1..MaxRequests
      [] OTHER -> {0}

\* a store operation is performed, and performed again on what it left
StoreOpTwice ==
    /\ applied.pc = "ready"
    /\ \E fn \in StoreOps : \E arg \in Arguments(fn) :
          LET once == Perform(fn, applied.st, arg)
          IN  applied' = [pc |-> "done", fn |-> fn, arg |-> arg,
                          st |-> applied.st, once |-> once,
                          twice |-> Perform(fn, once.store, arg)]
    /\ UNCHANGED <<router, orch, limiter, slots, adapter>>

\* the HTTP statuses httpx raises HTTPStatusError for that are followed
Statuses == {400, 401, 403, 404, 408, 422, 429, 500, 502, 503}

\* variant: a 5xx is not retriable
handle_http_error_ServerFatal(name, status_code, message) ==
    IF status_code = 429 THEN ProviderError(name, "RATE_LIMIT", message, TRUE)
    ELSE IF status_code >= 500 THEN ProviderError(name, "SERVER_ERROR", message, FALSE)
    ELSE IF status_code = 408 THEN ProviderError(name, "TIMEOUT", message, TRUE)
    ELSE IF status_code = 401 THEN ProviderError(name, "UNAUTHORIZED", message, FALSE)
    ELSE IF status_code = 403 THEN ProviderError(name, "FORBIDDEN", message, FALSE)
    ELSE IF status_code = 400 THEN ProviderError(name, "BAD_REQUEST", message, FALSE)
    ELSE ProviderError(name, "HTTP_" \o ToString(status_code), message, FALSE)

\* ProviderAdapter._handle_http_error
handle_http_error(name, status_code, message) ==
    IF status_code = 429 THEN ProviderError(name, "RATE_LIMIT", message, TRUE)
    ELSE IF status_code >= 500 THEN ProviderError(name, "SERVER_ERROR", message, TRUE)
    ELSE IF status_code = 408 THEN ProviderError(name, "TIMEOUT", message, TRUE)
    ELSE IF status_code = 401 THEN ProviderError(name, "UNAUTHORIZED", message, FALSE)
    ELSE IF status_code = 403 THEN ProviderError(name, "FORBIDDEN", message, FALSE)
    ELSE IF status_code = 400 THEN ProviderError(name, "BAD_REQUEST", message, FALSE)
    ELSE ProviderError(name, "HTTP_" \o ToString(status_code), message, FALSE)

\* an adapter turns the status of an upstream answer into a ProviderError
HandleHttpError ==
    /\ applied.pc = "ready"
    /\ \E name \in Names3 : \E status_code \in Statuses :
          applied' = [pc |-> "done", fn |-> "_handle_http_error",
                      arg |-> status_code, st |-> applied.st,
                      once |-> handle_http_error(name, status_code, <<"upstream">>),
                      twice |-> name]
    /\ UNCHANGED <<router, orch, limiter, slots, adapter>>

\* the codes a ProviderError reaching /chat may carry
ChatCodes ==
    {"RATE_LIMIT", "SERVER_ERROR", "TIMEOUT", "UNAUTHORIZED", "FORBIDDEN",
     "BAD_REQUEST", "INVALID_RESPONSE", "INVALID_PROVIDER",
     "PROVIDER_UNAVAILABLE", "ALL_PROVIDERS_FAILED", "GLOBAL_TIMEOUT",
     "UNKNOWN_ERROR", "HTTP_404"}

\* chat(): the status_code of the HTTPException raised for e.code
chat_status_code(code) ==
    IF code = "RATE_LIMIT" THEN 429
    ELSE IF code \in {"UNAUTHORIZED", "FORBIDDEN"} THEN 403
    ELSE IF code = "INVALID_PROVIDER" THEN 400
    ELSE IF code = "ALL_PROVIDERS_FAILED" THEN 503
    ELSE 500

\* /chat answers a terminal ProviderError
ChatRaises ==
    /\ applied.pc = "ready"
    /\ \E code \in ChatCodes :
          applied' = [pc |-> "done", fn |-> "chat", arg |-> code,
                      st |-> applied.st, once |-> chat_status_code(code),
                      twice |-> None]
    /\ UNCHANGED <<router, orch, limiter, slots, adapter>>

\* the 2xx bodies an upstream may answer a unary call with
Bodies == {"text", "no field", "empty choices"}

\* if "choices" in data and len(data["choices"]) > 0 (Groq, OpenRouter);
\* if "response" in data (Ollama)
HasField(name, body) ==
    IF name = "ollama" THEN body # "no field" ELSE body = "text"

\* the else branch: raise ProviderError(code="INVALID_RESPONSE", ...)
InvalidResponse(name) ==
    ProviderError(name, "INVALID_RESPONSE", <<"no contiene ", name>>, FALSE)

\* variant: a ProviderError raised inside the try block leaves generate as
\* it is
ExceptException_Reraises(name, e) == e

\* except Exception as e, the last handler of generate's try block, which
\* the raise of the else branch is inside of: ProviderError is an Exception
ExceptException(name, e) ==
    ProviderError(name, "UNKNOWN_ERROR",
                  <<"Error inesperado: ", e.provider, e.code>> \o e.message, FALSE)

\* GroqAdapter.generate / OpenRouterAdapter.generate / OllamaAdapter.generate
\* on a 2xx answer
generate(name, body) ==
    IF HasField(name, body)
    THEN [text |-> body, provider |-> name]
    ELSE ExceptException(name, InvalidResponse(name))

\* an adapter's generate gets a 2xx answer from its upstream
GenerateAnswered ==
    /\ applied.pc = "ready"
    /\ \E name \in Names3 : \E body \in Bodies :
          applied' = [pc |-> "done", fn |-> "generate", arg |-> body,
                      st |-> applied.st, once |-> generate(name, body),
                      twice |-> name]
    /\ UNCHANGED <<router, orch, limiter, slots, adapter>>

InitApply ==
    /\ Rest
    /\ applied \in
         {[pc |-> "ready", st |-> Keys(bl, fl, rl)] :
             bl \in {0, 1, Backoff(1)},
             fl \in {Absent} \cup {[n |-> k, ttl |-> t] :
                                      k \in 1..MaxInitFailures, t \in {1, failure_ttl}},
             rl \in {Absent} \cup {[n |-> k, ttl |-> window_seconds] :
                                      k \in 1..MaxRequests}}
    /\ limiter = Off /\ slots = Off /\ adapter = Off

NextApply ==
    \/ StoreOpTwice
    \/ HandleHttpError
    \/ ChatRaises
    \/ GenerateAnswered

SpecApply == InitApply /\ [][NextApply]_vars

-----------------------------------------------------------------------------
(* Specification: one adapter stream. The upstream sends lines; the transport
   hands them to the adapter in chunks cut anywhere, also inside a line; the
   adapter parses each chunk as it arrives (api/providers/groq_adapter.py
   85-119, openrouter_adapter.py 78-112, ollama_adapter.py 126-154) *)

\* lines the upstream sends at most
MaxLines == 3
\* distinct non-empty contents
MaxContent == 2

Line(kind, content) == [kind |-> kind, content |-> content]

\* what the upstream may send on one line: an event with a content (0: the
\* empty string), a blank line, a comment line, the end marker
Events ==
    {Line("data", c) : c \in 0..MaxContent}
        \cup {Line("blank", 0), Line("comment", 0), Line("done", 0)}

\* one side of a line the transport cut in two: `data: {"choic`, `":"b"}`
Fragment == Line("fragment", 0)

\* what parsing the lines of one chunk yields, and whether it left the loop
\* over the lines at an end marker
Parsed(yield, broke) == [yield |-> yield, broke |-> broke]

RECURSIVE ParseSse(_)
\* for line in chunk_text.split("\n"): blank and comment lines are skipped; a
\* line that does not start with "data: " is ignored; "[DONE]" breaks; JSON
\* that does not parse is skipped; a non-empty delta.content is yielded
ParseSse(lines) ==
    IF lines = <<>> THEN Parsed(<<>>, FALSE)
    ELSE LET line == Head(lines)
             rest == ParseSse(Tail(lines))
         IN  IF line.kind = "done" THEN Parsed(<<>>, TRUE)
             ELSE IF line.kind = "data" /\ line.content # 0
             THEN Parsed(<<line.content>> \o rest.yield, rest.broke)
             ELSE rest

RECURSIVE ParseJsonl(_)
\* for line in chunk_text.strip().split("\n"): blank lines are skipped; JSON
\* that does not parse is skipped; a non-empty response is yielded; an
\* object with done = true breaks, after its response is yielded
ParseJsonl(lines) ==
    IF lines = <<>> THEN Parsed(<<>>, FALSE)
    ELSE LET line == Head(lines)
             rest == ParseJsonl(Tail(lines))
             yield == IF line.kind \in {"data", "done"} /\ line.content # 0
                      THEN <<line.content>> ELSE <<>>
         IN  IF line.kind = "done" THEN Parsed(yield, TRUE)
             ELSE Parsed(yield \o rest.yield, rest.broke)

Parse(format, lines) ==
    IF format = "sse" THEN ParseSse(lines) ELSE ParseJsonl(lines)

\* the body of `async for chunk_bytes in self.http_client.stream_post(...)`:
\* the transport hands over a chunk holding the tail of the line it cut last
\* (carry), the next j whole lines and, if it cuts again, the head of the line
\* after them; the adapter parses these lines and yields
Receive ==
    /\ adapter.pc = "on"
    /\ \E j \in 0..(Len(adapter.upstream) + 1 - adapter.next) :
       \E cut \in BOOLEAN :
          /\ cut => adapter.next + j <= Len(adapter.upstream)
          /\ adapter.carry \/ j > 0 \/ cut
          /\ LET lines == (IF adapter.carry THEN <<Fragment>> ELSE <<>>)
                          \o SubSeq(adapter.upstream, adapter.next,
                                    adapter.next + j - 1)
                          \o (IF cut THEN <<Fragment>> ELSE <<>>)
                 parsed == Parse(adapter.format, lines)
             IN  adapter' = [adapter EXCEPT
                    !.next = @ + j + (IF cut THEN 1 ELSE 0),
                    !.carry = cut,
                    !.cuts = @ \/ cut,
                    !.out = @ \o parsed.yield,
                    !.read_done = @ \/ parsed.broke,
                    !.out_at_done = IF ~adapter.read_done /\ parsed.broke
                                    THEN Len(adapter.out) + Len(parsed.yield)
                                    ELSE @]
    /\ UNCHANGED <<router, orch, limiter, slots, applied>>

\* the transport has nothing more: the `async for` ends and so does the stream
TransportEnds ==
    /\ adapter.pc = "on"
    /\ adapter.next > Len(adapter.upstream)
    /\ ~adapter.carry
    /\ adapter' = [adapter EXCEPT !.pc = "closed"]
    /\ UNCHANGED <<router, orch, limiter, slots, applied>>

InitAdapter ==
    /\ Rest
    /\ adapter \in {[pc |-> "on", format |-> f, upstream |-> u, next |-> 1,
                     carry |-> FALSE, cuts |-> FALSE, out |-> <<>>,
                     read_done |-> FALSE, out_at_done |-> 0] :
                        f \in {"sse", "jsonl"},
                        u \in UNION {[1..n -> Events] : n \in 0..MaxLines}}
    /\ limiter = Off /\ slots = Off /\ applied = Off

NextAdapter ==
    \/ Receive
    \/ TransportEnds

SpecAdapter == InitAdapter /\ [][NextAdapter]_vars

\* where the upstream's first end marker is (past the end if there is none)
Marker(u) ==
    IF \E i \in 1..Len(u) : u[i].kind = "done"
    THEN CHOOSE i \in 1..Len(u) :
            u[i].kind = "done" /\ \A k \in 1..(i - 1) : u[k].kind # "done"
    ELSE Len(u) + 1

RECURSIVE Contents(_)
\* the non-empty contents of the events of u, in order
Contents(u) ==
    IF u = <<>> THEN <<>>
    ELSE (IF Head(u).kind = "data" /\ Head(u).content # 0
          THEN <<Head(u).content>> ELSE <<>>) \o Contents(Tail(u))

-----------------------------------------------------------------------------
(* Specification: one request against a store with no failure recorded; the
   store may fail a reset_failure_count call, and the request may be cancelled at any of its
   suspension points (asyncio.wait_for of the Orchestrator, caller gone) *)

\* _mark_provider_success: DEL failures:{p} raises a fault of the store; the
\* call is inside the try block of the candidate loop, whose
\* `except Exception` takes it for a fault of the candidate
ResetFaults(r) ==
    /\ req[r].pc = "reset"
    /\ LET p == Candidate(r)
       IN \E x \in Faults("redis") :
             req' = [req EXCEPT ![r] =
                        HandleException(
                            Caught(Logged(@, "DEL failures raises", p, 0),
                                   "Exception",
                                   ProviderError(p, "UNKNOWN_ERROR", x, FALSE)),
                            p, x)]
    /\ UNCHANGED <<orch, apart, providers, blacklist, failures, ratelimit, streak>>

\* the request's task is cancelled while it waits: CancelledError is raised
\* at the await it is suspended in, and no handler of the router catches it
Cancel(r) ==
    /\ req[r].pc \notin {"idle", "done", "raised", "cancelled"}
    /\ req' = [req EXCEPT ![r] = [@ EXCEPT !.pc = "cancelled"]]
    /\ UNCHANGED <<orch, apart, providers, blacklist, failures, ratelimit, streak>>

InitUnsafe ==
    /\ providers = <<"groq", "openrouter">>
    /\ blacklist = [p \in Names |-> 0]
    /\ failures = [p \in Names |-> Absent]
    /\ ratelimit \in {[p \in Names |-> k] :
                        k \in {Absent, [n |-> ProviderRateLimit - 1,
                                        ttl |-> window_seconds]}}
    /\ req = [r \in Requests |-> Idle]
    /\ streak = [p \in Names |-> [since |-> 0, run |-> 0]]
    /\ orch = OrchIdle
    /\ ApartOff

NextUnsafe ==
    \/ Next
    \/ \E r \in Requests : ResetFaults(r)
    \/ \E r \in Requests : Cancel(r)

SpecUnsafe == InitUnsafe /\ [][NextUnsafe]_vars

-----------------------------------------------------------------------------
(* Specification: one request, its coroutine scheduled as long as it
   has a step to take: the event loop resumes it after every await, and every
   adapter call and store command it awaits returns, fails or times out *)

\* the stores of Init in which no window is full, both windows are equally
\* full and at most the first provider has failed
InitFair ==
    /\ Init
    /\ ratelimit["groq"] = ratelimit["openrouter"]
    /\ ratelimit["groq"].n < ProviderRateLimit
    /\ failures["openrouter"] = Absent

SpecFair == InitFair /\ [][Next]_vars /\ WF_vars(Next)

-----------------------------------------------------------------------------
(* Specification: two concurrent requests to a router with one provider,
   from an empty store; their steps interleave at every await *)

Pair == {"r1", "r2"}

InitPair ==
    /\ providers = <<"groq">>
    /\ blacklist = [p \in Names |-> 0]
    /\ failures = [p \in Names |-> Absent]
    /\ ratelimit = [p \in Names |-> Absent]
    /\ req = [r \in Pair |-> Idle]
    /\ streak = [p \in Names |-> [since |-> 0, run |-> 0]]
    /\ orch = OrchIdle
    /\ ApartOff

NextPair ==
    \/ \E r \in Pair : StartUnpinned(r)
    \/ \E r \in Pair : CheckBlacklist(r)
    \/ \E r \in Pair : RateLimitGet(r)
    \/ \E r \in Pair : RateLimitSetex(r)
    \/ \E r \in Pair : RateLimitIncr(r)
    \/ \E r \in Pair : Generate(r)
    \/ \E r \in Pair : FirstChunk(r)
    \/ \E r \in Pair : StreamNext(r)
    \/ \E r \in Pair : MarkSuccess(r)
    \/ \E r \in Pair : IncrementFailure(r)
    \/ \E r \in Pair : ExpireFailure(r)
    \/ \E r \in Pair : BlacklistProvider(r)

SpecPair == InitPair /\ [][NextPair]_vars

-----------------------------------------------------------------------------
(* Specification: the health keys of one provider under the store's clock.
   Requests enter choose_and_generate one after another; each finds the
   provider blacklisted and gives up, or calls it and records its success or
   its retriable failure. Time passes between any two store commands, in
   steps of backoff_base seconds, and a key whose TTL has run out is gone.
   The provider's rate-limit window is taken to admit every request. *)

\* the history of a provider since its last recorded success: the TTLs of
\* its last two quarantines (prev, last), whether failures:{p} has run out
\* since its last INCR (lapsed), whether it had at that INCR (anew), and
\* whether it did between the INCRs of those two quarantines (gap)
NoStreak ==
    [prev |-> 0, last |-> 0, lapsed |-> FALSE, anew |-> FALSE, gap |-> FALSE]

\* a TTL, backoff_base seconds later; 0 = the key is gone
Aged(ttl) == IF ttl > backoff_base THEN ttl - backoff_base ELSE 0

\* a request enters choose_and_generate
TimedStart(r) ==
    /\ req[r].pc = "idle"
    /\ req' = [req EXCEPT ![r] = [Idle EXCEPT !.mode = "generate", !.i = 1,
                                              !.pc = "gate"]]
    /\ UNCHANGED <<orch, apart, providers, blacklist, failures, ratelimit, streak>>

\* is_provider_blacklisted: a blacklisted provider is skipped, and the loop
\* over the one provider ends
TimedCheckBlacklist(r) ==
    /\ req[r].pc = "gate"
    /\ req' = [req EXCEPT ![r] =
                  IF blacklist[Candidate(r)] # 0
                  THEN [@ EXCEPT !.pc = "raised",
                                 !.error = AllProvidersFailed(None)]
                  ELSE [@ EXCEPT !.pc = "call"]]
    /\ UNCHANGED <<orch, apart, providers, blacklist, failures, ratelimit, streak>>

\* provider.generate answers, or raises a retriable ProviderError
TimedGenerate(r) ==
    /\ req[r].pc = "call"
    /\ \E ok \in BOOLEAN :
          req' = [req EXCEPT ![r] =
                     IF ok THEN [@ EXCEPT !.pc = "reset", !.response = "ok"]
                     ELSE [@ EXCEPT !.pc = "mark_incr",
                                    !.last_error =
                                        ProviderError(Candidate(r), "TIMEOUT",
                                                      <<"timeout">>, TRUE)]]
    /\ UNCHANGED <<orch, apart, providers, blacklist, failures, ratelimit, streak>>

\* _mark_provider_success: DEL failures:{p}, then return
TimedMarkSuccess(r) ==
    /\ req[r].pc = "reset"
    /\ LET p == Candidate(r)
       IN /\ failures' = [failures EXCEPT ![p] = Absent]
          /\ streak' = [streak EXCEPT ![p] = NoStreak]
    /\ req' = [req EXCEPT ![r] = [@ EXCEPT !.pc = "done"]]
    /\ UNCHANGED <<orch, apart, providers, blacklist, ratelimit>>

\* increment_failure_count: count = INCR failures:{p}
TimedIncrementFailure(r) ==
    /\ req[r].pc = "mark_incr"
    /\ LET p == Candidate(r)
       IN /\ failures[p].n < MaxFailures
          /\ failures' = [failures EXCEPT ![p] = Incr(@)]
          /\ req' = [req EXCEPT ![r] =
                        [@ EXCEPT !.failure_count = failures'[p].n,
                                  !.pc = "mark_expire"]]
          /\ streak' = [streak EXCEPT ![p] =
                           [@ EXCEPT !.anew = streak[p].lapsed, !.lapsed = FALSE]]
    /\ UNCHANGED <<orch, apart, providers, blacklist, ratelimit>>

\* increment_failure_count: EXPIRE failures:{p} 300
TimedExpireFailure(r) ==
    /\ req[r].pc = "mark_expire"
    /\ LET p == Candidate(r)
       IN failures' = [failures EXCEPT ![p] =
                          IF @.n = 0 THEN Absent
                          ELSE [@ EXCEPT !.ttl = failure_ttl]]
    /\ req' = [req EXCEPT ![r] = [@ EXCEPT !.pc = "mark_bl"]]
    /\ UNCHANGED <<orch, apart, providers, blacklist, ratelimit, streak>>

\* blacklist_provider: SETEX blacklist:{p} backoff 1; the loop over the one
\* provider ends with ALL_PROVIDERS_FAILED
TimedBlacklistProvider(r) ==
    /\ req[r].pc = "mark_bl"
    /\ LET p == Candidate(r)
       IN /\ blacklist' = [blacklist EXCEPT ![p] = Backoff(req[r].failure_count)]
          /\ streak' = [streak EXCEPT ![p] =
                           [@ EXCEPT !.prev = streak[p].last, !.last = blacklist'[p],
                                     !.gap = streak[p].anew]]
    /\ req' = [req EXCEPT ![r] =
                  [@ EXCEPT !.pc = "raised",
                            !.error = AllProvidersFailed(req[r].last_error)]]
    /\ UNCHANGED <<orch, apart, providers, failures, ratelimit>>

\* backoff_base seconds pass: every key with a TTL comes that much closer to
\* its expiry, and is gone when it gets there
TimedTick ==
    /\ \E p \in Names : blacklist[p] # 0 \/ failures[p].ttl # NoTtl
    /\ blacklist' = [p \in Names |-> Aged(blacklist[p])]
    /\ failures' = [p \in Names |->
                       IF failures[p].n = 0 \/ failures[p].ttl = NoTtl
                       THEN failures[p]
                       ELSE IF Aged(failures[p].ttl) = 0 THEN Absent
                       ELSE [failures[p] EXCEPT !.ttl = Aged(@)]]
    /\ streak' = [p \in Names |->
                     [streak[p] EXCEPT !.lapsed =
                         @ \/ (failures[p].n # 0 /\ failures'[p].n = 0)]]
    /\ UNCHANGED <<orch, apart, providers, ratelimit, req>>

InitTimed ==
    /\ providers = <<"groq">>
    /\ blacklist = [p \in Names |-> 0]
    /\ failures = [p \in Names |-> Absent]
    /\ ratelimit = [p \in Names |-> Absent]
    /\ req = [r \in Requests |-> Idle]
    /\ streak = [p \in Names |-> NoStreak]
    /\ orch = OrchIdle
    /\ ApartOff

NextTimed ==
    \/ \E r \in Requests : TimedStart(r)
    \/ \E r \in Requests : TimedCheckBlacklist(r)
    \/ \E r \in Requests : TimedGenerate(r)
    \/ \E r \in Requests : TimedMarkSuccess(r)
    \/ \E r \in Requests : TimedIncrementFailure(r)
    \/ \E r \in Requests : TimedExpireFailure(r)
    \/ \E r \in Requests : TimedBlacklistProvider(r)
    \/ \E r \in Requests : Restart(r)
    \/ TimedTick

SpecTimed == InitTimed /\ [][NextTimed]_vars

-----------------------------------------------------------------------------
(* Reading a request's log *)

Positions(q) == 1..Len(q.calls)

IsAdapterCall(c) == c.op \in {"stream", "generate"}

\* commands that write failures:{p} or blacklist:{p}
IsHealthWrite(c) ==
    c.op \in {"INCR failures", "EXPIRE failures", "SETEX blacklist", "DEL failures"}

IsWrite(c) == IsHealthWrite(c) \/ c.op \in {"SETEX ratelimit", "INCR ratelimit"}

Count(q, op, p) ==
    Cardinality({j \in Positions(q) :
                    q.calls[j].op = op /\ q.calls[j].provider = p})

\* a chunk of p was yielded to the caller before position k
Committed(q, p, k) ==
    \E j \in Positions(q) :
        j < k /\ q.calls[j].op = "yield" /\ q.calls[j].provider = p

\* a chunk of some provider was yielded to the caller before position k
AnyChunkBefore(q, k) ==
    \E j \in Positions(q) : j < k /\ q.calls[j].op = "yield"

Index(p) == CHOOSE j \in 1..Len(providers) : providers[j] = p

\* the loop is past candidate p
Left(q, p) == q.i > Index(p)

Over(q) == q.pc \in {"done", "raised"}

LastCall(q) == q.calls[Len(q.calls)]

-----------------------------------------------------------------------------
(* C1: once a chunk has been forwarded to the caller, choose_and_stream
   calls stream or generate of no other adapter for that request. *)
C1_NoAdapterAfterChunk ==
    \A r \in Requests :
        \A j, k \in Positions(req[r]) :
            (/\ j < k
             /\ req[r].calls[j].op = "yield"
             /\ IsAdapterCall(req[r].calls[k]))
            => req[r].calls[k].provider = req[r].calls[j].provider

(* C2: when the committed provider's stream fails with ProviderError e after
   its first chunk, the caller has that provider's chunks followed by e
   itself as the terminal failure. *)
C2_PostCommitErrorSurfaced ==
    \A r \in Requests :
        \A k \in Positions(req[r]) :
            LET q == req[r]
                c == q.calls[k]
            IN (c.op = "ProviderError" /\ Committed(q, c.provider, k) /\ Over(q))
               => /\ q.pc = "raised"
                  /\ q.error.provider = c.provider
                  /\ q.error.message = c.msg
                  /\ q.error.code # "ALL_PROVIDERS_FAILED"
                  /\ \A n \in 1..Len(q.out) : q.out[n][1] = c.provider

(* C3: a retriable ProviderError of the committed provider p is recorded
   exactly once (one INCR of failures:{p}, one SETEX of blacklist:{p}, after
   which blacklist:{p} is present); a non-retriable one writes neither key. *)
C3_PostCommitFailureRecordedOnce ==
    \A r \in Requests :
        \A k \in Positions(req[r]) :
            LET q == req[r]
                c == q.calls[k]
                p == c.provider
            IN (c.op = "ProviderError" /\ Committed(q, p, k) /\ Left(q, p))
               => IF c.val = 1
                  THEN /\ Count(q, "INCR failures", p) = 1
                       /\ Count(q, "SETEX blacklist", p) = 1
                       /\ \A j \in Positions(q) :
                             q.calls[j].provider = p
                             => /\ q.calls[j].op # "DEL failures"
                                /\ IsHealthWrite(q.calls[j]) => j > k
                       /\ (LastCall(q).op = "SETEX blacklist"
                              /\ LastCall(q).provider = p)
                             => /\ blacklist[p] = LastCall(q).val
                                /\ blacklist[p] > 0
                  ELSE \A j \in Positions(q) :
                          q.calls[j].provider = p => ~IsHealthWrite(q.calls[j])

C3_Witness ==
    \E r \in Requests :
        \E k \in Positions(req[r]) :
            LET q == req[r]
                c == q.calls[k]
            IN /\ c.op = "ProviderError" /\ c.val = 1
               /\ Committed(q, c.provider, k)
               /\ LastCall(q).op = "SETEX blacklist"
               /\ LastCall(q).provider = c.provider
               /\ failures[c.provider].n = 2

(* C4: a provider found blacklisted at its gate is never invoked during the
   request and none of its store keys is written, in choose_and_stream and
   in choose_and_generate. *)
C4_BlacklistedNeverInvoked ==
    \A r \in Requests :
        \A j, k \in Positions(req[r]) :
            LET q == req[r]
            IN (/\ q.calls[j].op = "GET blacklist" /\ q.calls[j].val = 1
                /\ q.calls[k].provider = q.calls[j].provider)
               => ~IsAdapterCall(q.calls[k]) /\ ~IsWrite(q.calls[k])

C4_Witness ==
    \E r \in Requests :
        LET q == req[r]
        IN /\ q.pc = "done"
           /\ q.mode = "generate"
           /\ \E j \in Positions(q) :
                 q.calls[j].op = "GET blacklist" /\ q.calls[j].val = 1

(* C5: when a request ends in success on provider p, its last act was
   reset_failure_count(p) and failures:{p} is absent, whatever it held. *)
C5_SuccessResetsFailures ==
    \A r \in Requests :
        LET q == req[r]
            p == providers[q.i]
        IN q.pc = "done"
           => /\ LastCall(q).op = "DEL failures"
              /\ LastCall(q).provider = p
              /\ failures[p].n = 0
              /\ (q.mode = "generate" => q.response = p)
              /\ (q.mode = "stream" =>
                     q.out # <<>> /\ q.out[Len(q.out)][1] = p)

C5_Witness ==
    \E r \in Requests :
        LET q == req[r]
        IN /\ q.pc = "done"
           /\ LastCall(q).op = "DEL failures"
           /\ LastCall(q).val = 1
           /\ failures[providers[q.i]].n = 0

(* C6: after k consecutive retriable failures of p, each recorded by
   _mark_provider_failed with no success of p in between, blacklist:{p} is
   present with TTL min(backoff_base * 2^(k-1), backoff_max). *)
C6_BackoffAfterKFailures ==
    \A r \in Requests :
        LET q == req[r]
        IN (q.calls # <<>> /\ LastCall(q).op = "SETEX blacklist")
           => LET p == LastCall(q).provider
                  k == streak[p].since
              IN /\ k >= 1
                 /\ blacklist[p] = Min(backoff_base * 2^(k - 1), backoff_max)

(* C6, amended: the same, provided failures:{p} did not expire between the
   k failures (each one recorded within 300 s of the one before). *)
C6_BackoffWhileCounterLives ==
    \A r \in Requests :
        LET q == req[r]
        IN (q.calls # <<>> /\ LastCall(q).op = "SETEX blacklist")
           => LET p == LastCall(q).provider
                  k == streak[p].since
              IN streak[p].run = k
                 => /\ k >= 1
                    /\ blacklist[p] = Min(backoff_base * 2^(k - 1), backoff_max)

C6_Witness ==
    \E r \in Requests :
        LET q == req[r]
        IN /\ q.calls # <<>>
           /\ LastCall(q).op = "SETEX blacklist"
           /\ streak[LastCall(q).provider].since >= 7
           /\ streak[LastCall(q).provider].run = streak[LastCall(q).provider].since
           /\ blacklist[LastCall(q).provider] = backoff_max

\* the loop went on to the candidate after p, or ended if p was the last
ContinuedAfter(q, k) ==
    LET p == q.calls[k].provider
    IN /\ Left(q, p)
       /\ IF k < Len(q.calls)
          THEN /\ Index(p) < Len(providers)
               /\ q.calls[k + 1].op = "GET blacklist"
               /\ q.calls[k + 1].provider = providers[Index(p) + 1]
          ELSE /\ q.i = Index(p) + 1
               /\ q.pc = (IF Index(p) < Len(providers) THEN "gate" ELSE "raised")

(* C7: a ProviderError with retriable = false raised by candidate p before
   commit makes the router continue with the next candidate, and the request
   issues no INCR, EXPIRE or DEL of failures:{p} and no SETEX of
   blacklist:{p}. *)
C7_NonRetriableLeavesCounters ==
    \A r \in Requests :
        \A k \in Positions(req[r]) :
            LET q == req[r]
                c == q.calls[k]
                p == c.provider
            IN (c.op = "ProviderError" /\ c.val = 0 /\ ~Committed(q, p, k))
               => /\ ContinuedAfter(q, k)
                  /\ \A j \in Positions(q) :
                        q.calls[j].provider = p => ~IsHealthWrite(q.calls[j])

C7_Witness ==
    \E r \in Requests :
        \E k \in Positions(req[r]) :
            LET q == req[r]
                c == q.calls[k]
            IN /\ c.op = "ProviderError" /\ c.val = 0
               /\ ~Committed(q, c.provider, k)
               /\ k < Len(q.calls)
               /\ q.calls[k + 1].op = "GET blacklist"
               /\ failures[c.provider].n = 1

(* C8: a fault that is not a ProviderError, thrown by candidate p's attempt,
   is recorded as ProviderError(p, UNKNOWN_ERROR, str(e), retriable = false);
   the request writes nothing to the store for it and continues with the
   next candidate. *)
C8_FaultWrappedNoWrites ==
    \A r \in Requests :
        \A k \in Positions(req[r]) :
            LET q == req[r]
                c == q.calls[k]
                p == c.provider
            IN c.op = "Exception"
               => /\ ContinuedAfter(q, k)
                  /\ k = Len(q.calls)
                        => q.last_error =
                              ProviderError(p, "UNKNOWN_ERROR", c.msg, FALSE)
                  /\ \A j \in Positions(q) :
                        (j > k /\ q.calls[j].provider = p) => ~IsWrite(q.calls[j])

C8_Witness ==
    \E r \in Requests :
        \E k \in Positions(req[r]) :
            LET q == req[r]
                c == q.calls[k]
            IN /\ c.op = "Exception"
               /\ k < Len(q.calls)
               /\ q.calls[k + 1].op = "GET blacklist"
               /\ q.pc = "done"

\* positions of the errors the loop remembered in last_error
Recorded(q) ==
    {k \in Positions(q) :
        q.calls[k].op \in {"rate_limited", "ProviderError", "Exception"}}

Max(S) == CHOOSE x \in S : \A y \in S : y <= x

(* C9: when the loop ends with no success, the router raises a non-retriable
   ProviderError ALL_PROVIDERS_FAILED whose message carries the message of
   the last error recorded in the loop (rate-limit skip, ProviderError or
   other fault), and no error message when none was recorded. *)
C9_AllFailedCarriesLastError ==
    \A r \in Requests :
        LET q == req[r]
        IN q.pc = "raised"
           => /\ q.error.provider = "router"
              /\ q.error.code = "ALL_PROVIDERS_FAILED"
              /\ q.error.retriable = FALSE
              /\ q.error.message =
                    IF Recorded(q) = {}
                    THEN <<"Todos los proveedores fallaron">>
                    ELSE <<"Todos los proveedores fallaron", ". Ultimo error: ">>
                         \o q.calls[Max(Recorded(q))].msg

C9_Witness ==
    \E r \in Requests :
        LET q == req[r]
        IN /\ q.pc = "raised"
           /\ q.out = <<>>
           /\ Cardinality(Recorded(q)) = 2
           /\ q.calls[Max(Recorded(q))].op = "rate_limited"
           /\ \E k \in Recorded(q) : q.calls[k].op = "ProviderError"

(* C10: when request.provider names an adapter of the router's list, only
   that adapter is ever invoked for the request. *)
C10_OnlyPinnedInvoked ==
    \A r \in Requests :
        LET q == req[r]
        IN (\E n \in 1..Len(providers) : providers[n] = q.pin)
           => \A k \in Positions(q) :
                 IsAdapterCall(q.calls[k]) => q.calls[k].provider = q.pin

(* C11: when request.provider names no adapter of the router's list, the
   request fails at once with INVALID_PROVIDER: no adapter is called and no
   store command is issued. *)
C11_InvalidProviderRejected ==
    \A r \in Requests :
        LET q == req[r]
        IN (q.pc # "idle" /\ q.pin = Ghost)
           => /\ q.calls = <<>>
              /\ q.pc = "raised"
              /\ q.error.code = "INVALID_PROVIDER"

(* C12: when request.provider names an adapter of the list whose blacklist
   key is present at its gate, the request fails with PROVIDER_UNAVAILABLE
   and no adapter is invoked. *)
C12_PinnedBlacklistedUnavailable ==
    \A r \in Requests :
        LET q == req[r]
        IN (\E k \in Positions(q) :
                /\ q.calls[k].op = "GET blacklist"
                /\ q.calls[k].provider = q.pin
                /\ q.calls[k].val = 1)
           => /\ \A k \in Positions(q) : ~IsAdapterCall(q.calls[k])
              /\ Over(q) => (q.pc = "raised" /\ q.error.code = "PROVIDER_UNAVAILABLE")

(* C13: when the rate-limit gate rejects candidate p, p's adapter is not
   invoked by the request, a retriable RATE_LIMIT error of p is remembered
   as the last error, the loop goes on to the next candidate, and the
   request issues no command on failures:{p} or blacklist:{p}. *)
C13_RateLimitedSkipped ==
    \A r \in Requests :
        \A k \in Positions(req[r]) :
            LET q == req[r]
                c == q.calls[k]
                p == c.provider
            IN c.op = "rate_limited"
               => /\ ContinuedAfter(q, k)
                  /\ \A j \in Positions(q) :
                        q.calls[j].provider = p
                        => ~IsAdapterCall(q.calls[j]) /\ ~IsHealthWrite(q.calls[j])
                  /\ k = Len(q.calls)
                        => /\ q.last_error.provider = p
                           /\ q.last_error.code = "RATE_LIMIT"
                           /\ q.last_error.retriable = TRUE

C13_Witness ==
    \E r \in Requests :
        LET q == req[r]
        IN /\ Len(q.calls) >= 4
           /\ q.calls[3].op = "rate_limited"
           /\ q.calls[3].provider = "groq"
           /\ q.calls[4].op = "GET blacklist"
           /\ q.calls[4].provider = "openrouter"
           /\ q.pc = "done"
           /\ failures["groq"].n = 1

\* candidate pi was skipped at a gate, or failed with no chunk forwarded,
\* before position k of the log
SkippedOrFailedBeforeCommit(q, pi, k) ==
    \E m \in Positions(q) :
        /\ m < k
        /\ q.calls[m].provider = pi
        /\ \/ q.calls[m].op = "GET blacklist" /\ q.calls[m].val = 1
           \/ q.calls[m].op = "rate_limited"
           \/ /\ q.calls[m].op \in {"timeout", "empty", "ProviderError", "Exception"}
              /\ ~Committed(q, pi, m)

(* C14: candidates are attempted in list order and the first success ends
   the request: the adapter at position j is invoked only if every candidate
   before it was skipped at its gate or failed before commit, and no adapter
   is invoked after a success. *)
C14_InOrderFirstSuccessEnds ==
    \A r \in Requests :
        \A k \in Positions(req[r]) :
            LET q == req[r]
                c == q.calls[k]
            IN IsAdapterCall(c)
               => /\ \A i \in 1..(Index(c.provider) - 1) :
                        SkippedOrFailedBeforeCommit(q, providers[i], k)
                  /\ \A m \in Positions(q) :
                        m < k => q.calls[m].op # "DEL failures"

\* _mark_provider_failed ran for the candidate of log entry k right after
\* it, once, and the loop went on; nothing of that candidate reached the caller
NoFirstChunkHandled(q, k) ==
    LET p == q.calls[k].provider
    IN /\ \A j \in Positions(q) :
             q.calls[j].op = "yield" => q.calls[j].provider # p
       /\ Count(q, "stream", p) = 1
       /\ Count(q, "DEL failures", p) = 0
       /\ IF Left(q, p)
          THEN /\ k + 3 <= Len(q.calls)
               /\ q.calls[k + 1].op = "INCR failures"
               /\ q.calls[k + 2].op = "EXPIRE failures"
               /\ q.calls[k + 3].op = "SETEX blacklist"
               /\ \A j \in (k + 1)..(k + 3) : q.calls[j].provider = p
               /\ q.calls[k + 3].val =
                     Min(backoff_base * 2^(q.calls[k + 1].val - 1), backoff_max)
               /\ Count(q, "INCR failures", p) = 1
               /\ Count(q, "SETEX blacklist", p) = 1
               /\ ContinuedAfter(q, k + 3)
          ELSE /\ providers[q.i] = p
               /\ q.pc \in {"mark_incr", "mark_expire", "mark_bl"}

(* C15: when candidate p produces no first chunk within the first-chunk
   timeout, the router records a failure of p (INCR failures:{p}, SETEX
   blacklist:{p} with the backoff), goes on to the next candidate, and never
   forwards a chunk of p to the caller. *)
C15_FirstChunkTimeoutFailsOver ==
    \A r \in Requests :
        \A k \in Positions(req[r]) :
            req[r].calls[k].op = "timeout" => NoFirstChunkHandled(req[r], k)

C15_Witness ==
    \E r \in Requests :
        LET q == req[r]
        IN /\ \E k \in Positions(q) :
                 q.calls[k].op = "timeout" /\ q.calls[k].provider = "groq"
           /\ q.pc = "done"
           /\ q.out = <<Chunk("openrouter", 1), Chunk("openrouter", 2)>>
           /\ failures["groq"].n = 1
           /\ blacklist["groq"] = backoff_base

(* C16: when candidate p's stream ends with zero elements, the router does
   what it does at a first-chunk timeout: it records a failure of p, yields
   nothing of p and goes on to the next candidate. *)
C16_EmptyStreamFailsOver ==
    \A r \in Requests :
        \A k \in Positions(req[r]) :
            req[r].calls[k].op = "empty" => NoFirstChunkHandled(req[r], k)

C16_Witness ==
    \E r \in Requests :
        LET q == req[r]
        IN /\ \E k \in Positions(q) :
                 q.calls[k].op = "empty" /\ q.calls[k].provider = "groq"
           /\ q.pc = "done"
           /\ q.out = <<Chunk("openrouter", 1)>>
           /\ failures["groq"].n = 2
           /\ blacklist["groq"] = 2 * backoff_base

(* C17: a stream request that committed to a provider and ended normally
   delivered to its caller exactly the chunks that provider's stream emitted,
   in the same order. *)
C17_DeliveredEqualsEmitted ==
    \A r \in Requests :
        LET q == req[r]
        IN (q.mode = "stream" /\ q.pc = "done") => q.out = q.upstream

(* C18: when candidate p raises a retriable ProviderError before any chunk
   was forwarded and a later candidate succeeds, the caller receives only the
   successful candidate's result, the request incremented failures:{p}
   exactly once and set blacklist:{p}, with TTL backoff_base when the
   increment returned 1. *)
C18_RetriableFailoverDeliversSuccessor ==
    \A r \in Requests :
        \A k \in Positions(req[r]) :
            LET q == req[r]
                c == q.calls[k]
                p == c.provider
            IN (/\ c.op = "ProviderError" /\ c.val = 1
                /\ ~AnyChunkBefore(q, k)
                /\ q.pc = "done")
               => /\ q.mode = "generate" => q.response = providers[q.i]
                  /\ q.mode = "stream" => q.out = q.upstream
                  /\ Count(q, "INCR failures", p) = 1
                  /\ Count(q, "SETEX blacklist", p) = 1
                  /\ q.calls[k + 1].op = "INCR failures"
                  /\ q.calls[k + 3].op = "SETEX blacklist"
                  /\ q.calls[k + 1].val = 1 => q.calls[k + 3].val = backoff_base

(* C19: GLOBAL_TIMEOUT is raised if and only if the time elapsed since the
   Orchestrator was entered exceeds max_operation_timeout before the request
   succeeds: a call that succeeds did so within the timeout, and a call that
   fails with GLOBAL_TIMEOUT had used the timeout up. *)
C19_GlobalTimeoutIffExceeded ==
    /\ orch.pc = "done" => orch.ended_at - orch.start_time <= max_operation_timeout
    /\ (orch.pc = "raised" /\ orch.error.code = "GLOBAL_TIMEOUT")
          => orch.ended_at - orch.start_time >= max_operation_timeout

Chunks(received) == [i \in 1..Len(received) |-> received[i].chunk]

(* C20: stream_response looks at the elapsed time before it yields each
   chunk: a chunk the router hands over after max_operation_timeout is not
   yielded; GLOBAL_TIMEOUT is raised instead, the router's stream is not
   resumed, and the caller has exactly the chunks received before it. *)
C20_NoChunkAfterDeadline ==
    /\ \A i \in 1..Len(orch.received) :
          orch.received[i].elapsed > max_operation_timeout
          => /\ i = Len(orch.received)
             /\ orch.pc = "raised"
             /\ orch.error = GlobalTimeout
             /\ orch.inner = "dropped"
             /\ orch.out = Chunks(SubSeq(orch.received, 1, i - 1))
    /\ (\A i \in 1..Len(orch.received) :
           orch.received[i].elapsed <= max_operation_timeout)
          => orch.out = Chunks(orch.received)

C20_Witness ==
    /\ orch.pc = "raised"
    /\ orch.error.code = "GLOBAL_TIMEOUT"
    /\ orch.mode = "stream"
    /\ Len(orch.received) = 2
    /\ orch.out = <<1>>
    /\ orch.start_time = 1

(* C21: the Orchestrator passes a ProviderError of the router on unchanged
   and turns any other fault of the router into a non-retriable ProviderError
   UNKNOWN_ERROR; the only codes it introduces itself are GLOBAL_TIMEOUT and
   UNKNOWN_ERROR. *)
C21_ErrorsPassOrBecomeUnknown ==
    orch.pc = "raised"
    => /\ orch.caught.kind = "ProviderError" => orch.error = orch.caught.e
       /\ orch.caught.kind \in {"Exception", "TimeoutError"}
             => /\ orch.error.code = "UNKNOWN_ERROR"
                /\ orch.error.retriable = FALSE
       /\ orch.caught.kind # "ProviderError"
             => orch.error.code \in {"GLOBAL_TIMEOUT", "UNKNOWN_ERROR"}

(* C21, amended: the same, except that a fault of the router that is an
   asyncio.TimeoutError is reported as GLOBAL_TIMEOUT. *)
C21_ErrorsPassOrBecomeUnknownOrTimeout ==
    orch.pc = "raised"
    => /\ orch.caught.kind = "ProviderError" => orch.error = orch.caught.e
       /\ orch.caught.kind = "Exception"
             => /\ orch.error.provider = "orchestrator"
                /\ orch.error.code = "UNKNOWN_ERROR"
                /\ orch.error.message = <<"Error inesperado: ">> \o orch.caught.text
                /\ orch.error.retriable = FALSE
       /\ orch.caught.kind = "TimeoutError"
             => orch.error.code = "GLOBAL_TIMEOUT" /\ orch.error.retriable = FALSE
       /\ orch.caught.kind # "ProviderError"
             => orch.error.code \in {"GLOBAL_TIMEOUT", "UNKNOWN_ERROR"}

C21_Witness ==
    /\ orch.pc = "raised"
    /\ orch.mode = "stream"
    /\ orch.caught.kind = "ProviderError"
    /\ orch.error.code = "TIMEOUT"
    /\ orch.error.retriable = TRUE
    /\ orch.out = <<1>>

(* C22: for one identifier, within one window, called sequentially with
   max_requests = m >= 1, the n-th check_rate_limit returns (true, m - n) for
   n <= m and (false, 0) for n > m; a rejected call leaves the stored counter
   as it was, and the first call creates the key with value 1 and TTL =
   window. *)
C22_SequentialWindow ==
    (limiter.pc = "on" /\ ~limiter.overlapped /\ ~limiter.rolled)
    => \A n \in 1..Len(limiter.log) :
          LET v == limiter.log[n]
              m == limiter.max_requests
          IN  /\ n <= m => v.allowed /\ v.remaining = m - n
              /\ n > m => ~v.allowed /\ v.remaining = 0
              /\ ~v.allowed => v.after = v.before
              /\ n = 1 => v.after = [n |-> 1, ttl |-> window_seconds]
              /\ v.after.n = IF n <= m THEN n ELSE m

C22_Witness ==
    /\ limiter.pc = "on"
    /\ ~limiter.overlapped /\ ~limiter.rolled
    /\ limiter.max_requests = 2
    /\ Len(limiter.log) = 4
    /\ limiter.log[2].allowed /\ ~limiter.log[3].allowed

(* C23: the fixed-window limit is a soft cap under concurrency only: calls
   that do not overlap never admit more requests in a window than the stored
   counter records or than max_requests, while two overlapping calls on an
   absent key can both be allowed, both creating the key, so that the
   requests admitted exceed the stored counter and max_requests. *)
C23_ExcessOnlyWhenOverlapping ==
    (/\ limiter.pc = "on"
     /\ ~limiter.rolled
     /\ \A c \in Callers : limiter.call[c].pc = "idle"
     /\ \/ limiter.admitted > (IF limiter.key = Absent THEN 0 ELSE limiter.key.n)
        \/ limiter.admitted > limiter.max_requests)
    => limiter.overlapped

\* both calls read the key absent, both created it and both were allowed
C23_Witness ==
    /\ limiter.pc = "on"
    /\ ~limiter.rolled
    /\ limiter.max_requests = 1
    /\ Len(limiter.log) = 2
    /\ \A n \in 1..2 : /\ limiter.log[n].allowed
                       /\ limiter.log[n].before = Absent
                       /\ limiter.log[n].after = [n |-> 1, ttl |-> window_seconds]
    /\ limiter.admitted = 2
    /\ limiter.key.n = 1
    /\ limiter.admitted > limiter.max_requests

(* C24: for any interleaving of acquire_slot(resource, N) and
   release_slot(resource) by concurrent requests, the counter
   concurrency:{resource} stays within 0..N. *)
C24_CounterWithinBounds ==
    slots.pc = "on" => slots.key.n \in 0..slots.max_slots

(* C25: a slot whose holder crashed without calling release_slot is reclaimed
   through the safety TTL: once the ttl handed to acquire_slot has passed
   since the crash the counter no longer counts it, whatever the other
   requests acquire and release meanwhile. *)
C25_LeakReclaimedWithinTtl ==
    (slots.pc = "on" /\ slots.leaked) => slots.clock - slots.crashed_at <= SlotTtl

(* C26: every store operation other than acquire_slot / release_slot is
   idempotent under retry: is_provider_blacklisted, blacklist_provider,
   increment_failure_count, reset_failure_count or check_rate_limit performed
   twice in a row with the same arguments leaves the store in the same state,
   and gives the same result, as performed once. *)
C26_StoreOpsIdempotent ==
    (applied.pc = "done" /\ applied.fn \in StoreOps)
    => applied.twice = applied.once

(* C26, amended: is_provider_blacklisted, blacklist_provider and
   reset_failure_count are idempotent under retry; increment_failure_count
   never is (the second call counts one more and returns one more), and
   check_rate_limit is only when the counter had already reached
   max_requests. *)
C26_ReadsSetsAndDeletesIdempotent ==
    (applied.pc = "done" /\ applied.fn \in StoreOps)
    => /\ applied.fn \in {"is_provider_blacklisted", "blacklist_provider",
                          "reset_failure_count"}
             => applied.twice = applied.once
       /\ applied.fn = "increment_failure_count"
             => /\ applied.twice.result = applied.once.result + 1
                /\ applied.twice.store.failures.n = applied.once.store.failures.n + 1
       /\ applied.fn = "check_rate_limit"
             => (applied.twice = applied.once
                    <=> (applied.st.ratelimit # Absent
                         /\ applied.st.ratelimit.n >= applied.arg))

\* a live blacklist key with another TTL is set twice to the same TTL
C26_Witness ==
    /\ applied.pc = "done"
    /\ applied.fn = "blacklist_provider"
    /\ applied.st.blacklist = 1
    /\ applied.arg = Backoff(2)
    /\ applied.once.store.blacklist = Backoff(2)
    /\ applied.twice = applied.once

(* C27: _handle_http_error maps 429 to RATE_LIMIT (retriable), any 5xx to
   SERVER_ERROR (retriable), 408 to TIMEOUT (retriable), 401 to UNAUTHORIZED,
   403 to FORBIDDEN, 400 to BAD_REQUEST and every other status to
   UNKNOWN_ERROR (not retriable), so that the code always belongs to the
   closed set of error codes. *)
C27_OtherStatusUnknownError ==
    (applied.pc = "done" /\ applied.fn = "_handle_http_error")
    => LET s == applied.arg
           e == applied.once
       IN  /\ e.code = IF s = 429 THEN "RATE_LIMIT"
                       ELSE IF s >= 500 THEN "SERVER_ERROR"
                       ELSE IF s = 408 THEN "TIMEOUT"
                       ELSE IF s = 401 THEN "UNAUTHORIZED"
                       ELSE IF s = 403 THEN "FORBIDDEN"
                       ELSE IF s = 400 THEN "BAD_REQUEST"
                       ELSE "UNKNOWN_ERROR"
           /\ e.retriable = (s = 429 \/ s >= 500 \/ s = 408)
           /\ e.code \in {"RATE_LIMIT", "SERVER_ERROR", "TIMEOUT", "UNAUTHORIZED",
                          "FORBIDDEN", "BAD_REQUEST", "INVALID_RESPONSE",
                          "INVALID_PROVIDER", "PROVIDER_UNAVAILABLE",
                          "ALL_PROVIDERS_FAILED", "GLOBAL_TIMEOUT", "UNKNOWN_ERROR"}

(* C27, amended: the same mapping for 429, 5xx, 408, 401, 403 and 400; every
   other status gives the code HTTP_<status>, not retriable, which is outside
   the closed set; the error carries the adapter's name and the message it was
   handed. *)
C27_OtherStatusHttpCode ==
    (applied.pc = "done" /\ applied.fn = "_handle_http_error")
    => LET s == applied.arg
           e == applied.once
       IN  /\ e.code = IF s = 429 THEN "RATE_LIMIT"
                       ELSE IF s >= 500 THEN "SERVER_ERROR"
                       ELSE IF s = 408 THEN "TIMEOUT"
                       ELSE IF s = 401 THEN "UNAUTHORIZED"
                       ELSE IF s = 403 THEN "FORBIDDEN"
                       ELSE IF s = 400 THEN "BAD_REQUEST"
                       ELSE "HTTP_" \o ToString(s)
           /\ e.retriable = (s = 429 \/ s >= 500 \/ s = 408)
           /\ e.provider = applied.twice
           /\ e.message = <<"upstream">>

C27_Witness ==
    /\ applied.pc = "done"
    /\ applied.fn = "_handle_http_error"
    /\ applied.arg = 404
    /\ applied.once.code = "HTTP_404"
    /\ ~applied.once.retriable

(* C30: /chat maps the code of a terminal ProviderError to an HTTP status:
   RATE_LIMIT to 429; UNAUTHORIZED or FORBIDDEN to 403; INVALID_PROVIDER to
   400; ALL_PROVIDERS_FAILED or PROVIDER_UNAVAILABLE to 503; GLOBAL_TIMEOUT to
   504; every other code to 500. *)
C30_ChatStatusMapping ==
    (applied.pc = "done" /\ applied.fn = "chat")
    => applied.once =
          (LET code == applied.arg
           IN  IF code = "RATE_LIMIT" THEN 429
               ELSE IF code \in {"UNAUTHORIZED", "FORBIDDEN"} THEN 403
               ELSE IF code = "INVALID_PROVIDER" THEN 400
               ELSE IF code \in {"ALL_PROVIDERS_FAILED", "PROVIDER_UNAVAILABLE"} THEN 503
               ELSE IF code = "GLOBAL_TIMEOUT" THEN 504
               ELSE 500)

(* C28: an adapter stream ends at the upstream end-of-stream marker: once the
   adapter has read `data: [DONE]` (Groq, OpenRouter) or an object with
   done = true (Ollama) it yields no further chunk, whatever lines or
   transport chunks the upstream sends afterwards. *)
C28_NothingAfterEndMarker ==
    (adapter.pc # "off" /\ adapter.read_done)
    => Len(adapter.out) = adapter.out_at_done

(* C29: for any upstream sequence of well-formed events ending at the end
   marker and any way the transport cuts it into chunks, the stream yields
   exactly the non-empty contents of the events before the marker, in
   upstream order, none dropped and none duplicated. *)
C29_YieldsExactlyTheContents ==
    (/\ adapter.pc = "closed"
     /\ Marker(adapter.upstream) >= Len(adapter.upstream))
    => adapter.out =
          Contents(SubSeq(adapter.upstream, 1, Marker(adapter.upstream) - 1))

(* C40: when the upstream answers a unary call with a 2xx body that lacks
   the expected field (no non-empty `choices` for Groq / OpenRouter, no
   `response` for Ollama), the adapter's generate fails with a non-retriable
   ProviderError whose code is INVALID_RESPONSE. *)
C40_MissingFieldInvalidResponse ==
    (/\ applied.pc = "done"
     /\ applied.fn = "generate"
     /\ ~HasField(applied.twice, applied.arg))
    => /\ applied.once.code = "INVALID_RESPONSE"
       /\ applied.once.retriable = FALSE

\* the commands that count a request in the window of a provider
IsWindowWrite(c) == c.op \in {"SETEX ratelimit", "INCR ratelimit"}

(* C39: the gate checks run in the order blacklist, then rate limit: a
   request counts itself in provider p's rate-limit window only after it
   found p not blacklisted, a blacklist skip leaves p's window counter
   untouched, and a request takes at most one unit of p's window whether or
   not its attempt on p then succeeds. *)
C39_BlacklistBeforeRateLimit ==
    \A r \in Requests : \A p \in Names :
        LET q == req[r]
            taken == {k \in Positions(q) :
                         IsWindowWrite(q.calls[k]) /\ q.calls[k].provider = p}
        IN  /\ \A k \in taken :
                  \E j \in Positions(q) :
                      /\ j < k
                      /\ q.calls[j] = Call("GET blacklist", p, <<>>, 0)
            /\ (\E j \in Positions(q) :
                    q.calls[j] = Call("GET blacklist", p, <<>>, 1))
                  => ~\E k \in Positions(q) :
                         /\ q.calls[k].provider = p
                         /\ q.calls[k].op \in {"GET ratelimit", "SETEX ratelimit",
                                               "INCR ratelimit"}
            /\ Cardinality(taken) <= 1

\* groq is skipped as blacklisted; openrouter is counted once and then fails
C39_Witness ==
    \E r \in Requests :
        LET q == req[r]
        IN  /\ Over(q)
            /\ q.calls[1] = Call("GET blacklist", "groq", <<>>, 1)
            /\ Count(q, "GET ratelimit", "groq") = 0
            /\ Count(q, "INCR ratelimit", "openrouter") = 1
            /\ Count(q, "INCR failures", "openrouter") = 1
            /\ q.pc = "raised"

(* C31: in choose_and_generate, once an adapter's generate has returned a
   response, that response is returned to the caller and no other adapter is
   invoked for the request, even when the reset_failure_count call that
   follows the success raises a fault. *)
C31_ResponseSurvivesResetFault ==
    \A r \in Requests :
        LET q == req[r]
        IN  (q.mode = "generate" /\ q.response # "")
            => /\ q.pc \in {"reset", "done", "cancelled"}
               /\ ~\E j, k \in Positions(q) :
                      /\ j < k
                      /\ q.calls[j] = Call("generate", q.response, <<>>, 0)
                      /\ IsAdapterCall(q.calls[k])

(* C37: recording a failure is atomic with respect to cancellation: whenever
   a request has incremented failures:{p}, the same request also sets the
   counter's TTL and blacklist:{p}, even when it is cancelled between the
   store calls. *)
C37_FailureRecordedWhole ==
    \A r \in Requests : \A p \in Names :
        LET q == req[r]
        IN  q.pc \in {"done", "raised", "cancelled"}
            => /\ Count(q, "EXPIRE failures", p) = Count(q, "INCR failures", p)
               /\ Count(q, "SETEX blacklist", p) = Count(q, "INCR failures", p)

\* adapter p was invoked at most once, and the loop never went back
OncePerAdapter(q, p) ==
    /\ Count(q, "generate", p) + Count(q, "stream", p) <= 1
    /\ Count(q, "GET blacklist", p) <= 1
    /\ \A j, k \in Positions(q) :
          (j < k /\ q.calls[j].provider \in Names /\ q.calls[k].provider \in Names)
          => Index(q.calls[j].provider) <= Index(q.calls[k].provider)

(* C38: for every request each adapter in the router's list is invoked at
   most once and the candidate loop makes at most one pass over the list, and
   choose_and_generate and choose_and_stream terminate, with a success or
   with a ProviderError. *)
C38_OnePassAndTermination ==
    /\ [](\A r \in Requests : \A p \in Names : OncePerAdapter(req[r], p))
    /\ <>(\A r \in Requests :
             \/ req[r].pc = "done"
             \/ req[r].pc = "raised" /\ req[r].error # None)

\* both adapters were invoked, once each, and the request ended
C38_Witness ==
    \E r \in Requests :
        /\ req[r].pc = "raised"
        /\ req[r].error.code = "ALL_PROVIDERS_FAILED"
        /\ req[r].i = Len(providers) + 1
        /\ \A p \in Names : Count(req[r], "generate", p) = 1

(* C34: every ratelimit:{identifier} key present in the store carries a TTL
   of at most the window length, under every interleaving of concurrent
   check_rate_limit calls and key expiry: no execution leaves a rate-limit
   counter that never expires. *)
C34_WindowKeyHasTtl ==
    (limiter.pc = "on" /\ limiter.key.n # 0)
    => (limiter.key.ttl # NoTtl /\ limiter.key.ttl <= window_seconds)

(* C33: when several concurrent requests each record a failure of the same
   provider p, after all their _mark_provider_failed calls have completed
   the TTL set on blacklist:{p} is the one computed from the final value n of
   failures:{p}, min(backoff_base * 2^(n-1), backoff_max), for every
   interleaving of their increment and blacklist writes. *)
C33_BlacklistFromFinalCount ==
    \A p \in Names :
        (/\ \A r \in Pair : /\ Over(req[r])
                            /\ Count(req[r], "INCR failures", p) = 1
                            /\ Count(req[r], "SETEX blacklist", p) = 1
         /\ failures[p].n = Cardinality(Pair))
        => blacklist[p] = Backoff(failures[p].n)

(* C35: with concurrent requests, no adapter is invoked while its
   blacklist:{p} key is present in the store: a request that passed p's gate
   before another request blacklisted p does not go on to call p's generate
   or stream. *)
C35_NoCallWhileBlacklisted ==
    [][\A r \in Pair :
          (req[r].pc = "call" /\ req'[r].pc # "call")
          => blacklist[Candidate(r)] = 0]_vars

(* C35, amended: a request invokes p's generate or stream only after its own
   gate check found no blacklist:{p} key, and never after its gate check
   found one; the gate is not looked at again before the call, so a request
   that passed it before another request blacklisted p does call p. *)
C35_CallOnlyAfterOwnGatePassed ==
    \A r \in Pair : \A k \in Positions(req[r]) :
        IsAdapterCall(req[r].calls[k])
        => LET p == req[r].calls[k].provider
           IN  /\ \E j \in Positions(req[r]) :
                     j < k /\ req[r].calls[j] = Call("GET blacklist", p, <<>>, 0)
               /\ ~\E j \in Positions(req[r]) :
                     req[r].calls[j] = Call("GET blacklist", p, <<>>, 1)

\* r1 passed groq's gate and called groq; by then r2 had blacklisted groq
C35_Witness ==
    /\ blacklist["groq"] # 0
    /\ Count(req["r2"], "SETEX blacklist", "groq") = 1
    /\ req["r1"].calls # <<>>
    /\ LastCall(req["r1"]).op = "generate"
    /\ LastCall(req["r1"]).provider = "groq"
    /\ req["r1"].pc = "reset"
    /\ req["r2"].pc = "raised"

(* C36: in every reachable store state, under concurrent requests, a present
   blacklist:{p} key implies that failures:{p} is present with value >= 1: a
   success of p recorded by one request never leaves p quarantined by
   another request's concurrent failure with its failure counter absent. *)
C36_BlacklistedImpliesCounted ==
    \A p \in Names : blacklist[p] # 0 => failures[p].n >= 1

(* C32: between two successes of provider p, the blacklist TTL applied to p
   on successive recorded failures never decreases: the failure that follows
   a quarantine of length t is quarantined for at least t. *)
C32_BackoffNeverDecreases ==
    \A p \in Names : streak[p].prev <= streak[p].last

(* C32, amended: between two successes of p, the blacklist TTL applied on
   successive recorded failures never decreases as long as failures:{p} did
   not run out between them, that is, as long as each failure is recorded
   within 300 s of the one before. *)
C32_BackoffNeverDecreasesWhileCounterLives ==
    \A p \in Names : ~streak[p].gap => streak[p].prev <= streak[p].last

\* seven failures in a row, each after the quarantine of the one before had
\* run out and with the counter still there: 160 s, then the cap
C32_Witness ==
    /\ streak["groq"].prev = 160
    /\ streak["groq"].last = backoff_max
    /\ ~streak["groq"].gap
    /\ failures["groq"].n = 7
    /\ req["r1"].pc = "raised"

====
